---- MODULE Spec2Model ----
(***************************************************************************)
(* Container Filesystem Bridge of mobile_portainer                         *)
(* (src/app/routers/containers.py): get_container_files,                   *)
(* download_container_file, update_container_file, list_files_via_exec     *)
(* and create_file_tar.                                                    *)
(*                                                                         *)
(* Strings are sequences of one-character strings, so that rstrip, lstrip, *)
(* startswith, split, os.path.join, dirname and basename are computed      *)
(* character by character as Python computes them.                         *)
(***************************************************************************)
EXTENDS Integers, Sequences, FiniteSets, TLC

VARIABLES
    mounts,     \* container.attrs["Mounts"] of the one existing container
    hostfs,     \* host filesystem under HOST_FILESYSTEM_ROOT, as far as observed
    ctrfs,      \* the container's own filesystem, as far as observed
    req,        \* the request being served
    pc,         \* position of the handler
    tgt,        \* the handler's locals after mount resolution
    res,        \* the response of the handler
    io,         \* filesystem / runtime calls made by the current request, in order
    client,     \* the request's docker client: "none", "open", "closed"
    nreq,       \* requests started so far
    lastWrite   \* the last successful write, <<>> when none

VARIABLES
    prev,       \* the request served before the current one, <<>> when none
    peer,       \* a second request in progress and its container, <<>> when none
    registry,   \* manager.active_connections: the websockets registered
    sockets,    \* the websockets that reach /ws/events, by number
    tasks,      \* the broadcasts scheduled on the event loop, oldest first
    emitted,    \* the actions of the events the runtime has emitted, in order
    updater,    \* the thread of git_auto_updater: its configuration and locals
    volume,     \* volume.attrs of the volume a request names, <<>> when none
    body        \* the body of a streamed response: what is left and the reads

\* the state of the filesystem bridge
bridge == <<mounts, hostfs, ctrfs, req, pc, tgt, res, io, client, nreq, lastWrite>>

\* the state the handlers of the bridge never touch
others == <<prev, peer, registry, sockets, tasks, emitted, updater, volume,
           body>>

vars == <<bridge, others>>

\* the state outside the bridge, untouched
OthersIdle ==
    /\ prev = <<>>
    /\ peer = <<>>
    /\ registry = <<>>
    /\ sockets = <<>>
    /\ tasks = <<>>
    /\ emitted = <<>>
    /\ updater = <<>>
    /\ volume = <<>>
    /\ body = <<>>

----------------------------------------------------------------------------
(* Bounds *)

MaxSegs == 2        \* segments of a requested path
MaxMounts == 2      \* mounts of a container in the resolution specification
MaxReads == 1       \* reads that follow a write in the round-trip specification

----------------------------------------------------------------------------
(* Python string and os.path primitives *)

RECURSIVE RStrip(_)
RStrip(s) ==
    IF s = <<>> THEN s
    ELSE IF s[Len(s)] = "/" THEN RStrip(SubSeq(s, 1, Len(s) - 1))
    ELSE s

RECURSIVE LStrip(_)
LStrip(s) ==
    IF s = <<>> THEN s
    ELSE IF s[1] = "/" THEN LStrip(Tail(s))
    ELSE s

StartsWith(s, p) == Len(p) <= Len(s) /\ SubSeq(s, 1, Len(p)) = p

\* s[n:]
Drop(s, n) == SubSeq(s, n + 1, Len(s))

\* s.split("/")
RECURSIVE Split(_)
Split(s) ==
    IF \E i \in 1..Len(s) : s[i] = "/"
    THEN LET i == CHOOSE k \in 1..Len(s) :
                     s[k] = "/" /\ \A j \in 1..(k - 1) : s[j] # "/"
         IN  <<SubSeq(s, 1, i - 1)>> \o Split(Drop(s, i))
    ELSE <<s>>

\* s.rfind("/") + 1
RFindSlash(s) ==
    IF \E i \in 1..Len(s) : s[i] = "/"
    THEN CHOOSE k \in 1..Len(s) :
             s[k] = "/" /\ \A j \in (k + 1)..Len(s) : s[j] # "/"
    ELSE 0

\* posixpath.join(a, b)
PathJoin(a, b) ==
    IF StartsWith(b, <<"/">>) THEN b
    ELSE IF a = <<>> \/ a[Len(a)] = "/" THEN a \o b
    ELSE a \o <<"/">> \o b

\* posixpath.dirname(p)
Dirname(p) ==
    LET head == SubSeq(p, 1, RFindSlash(p))
    IN  IF head # <<>> /\ RStrip(head) # <<>> THEN RStrip(head) ELSE head

\* posixpath.basename(p)
Basename(p) == Drop(p, RFindSlash(p))

\* HOST_FILESYSTEM_ROOT, default "/hostfs"
HOST_FILESYSTEM_ROOT == <<"/", "h", "o", "s", "t", "f", "s">>

----------------------------------------------------------------------------
(* Mount resolution: the loop shared verbatim by the three handlers *)

MountMatchesByStringPrefix(path_clean, dest) ==
    StartsWith(path_clean, RStrip(dest))

\* `if path_clean == dest_clean or path_clean.startswith(dest_clean + "/")`
MountMatches(path_clean, dest) ==
    LET dest_clean == RStrip(dest)
    IN  path_clean = dest_clean \/ StartsWith(path_clean, dest_clean \o <<"/">>)

\* one iteration of `for mount in mounts`; best is <<>> (None) or <<mount>>
BestStep(best, mount, path_clean) ==
    IF mount.Destination = <<>> THEN best
    ELSE IF MountMatches(path_clean, mount.Destination)
         THEN IF best = <<>>
                 \/ Len(RStrip(mount.Destination)) > Len(RStrip(best[1].Destination))
              THEN <<mount>>
              ELSE best
         ELSE best

RECURSIVE BestLoop(_, _, _)
BestLoop(ms, best, path_clean) ==
    IF ms = <<>> THEN best
    ELSE BestLoop(Tail(ms), BestStep(best, Head(ms), path_clean), path_clean)

\* best_match after the loop, for the request path
BestMatch(ms, path) == BestLoop(ms, <<>>, RStrip(path))

----------------------------------------------------------------------------
(* Host path mapping *)

\* relative_path of a matched request
RelativePath(mount, path) ==
    LET mount_dest_clean == RStrip(mount.Destination)
        path_clean == RStrip(path)
    IN  IF path_clean = mount_dest_clean THEN <<>>
        ELSE LStrip(Drop(path_clean, Len(mount_dest_clean)))

\* host_abs_path in get_container_files and download_container_file
HostAbsPathRead(mount, path) ==
    IF RStrip(path) = RStrip(mount.Destination) THEN mount.Source
    ELSE PathJoin(mount.Source, RelativePath(mount, path))

\* host_abs_path in update_container_file
HostAbsPathWrite(mount, path) ==
    PathJoin(mount.Source, RelativePath(mount, path))

FinalPathWithoutLStrip(host_abs_path) ==
    PathJoin(HOST_FILESYSTEM_ROOT, host_abs_path)

\* final_path = os.path.join(HOST_FILESYSTEM_ROOT, host_abs_path.lstrip("/"))
FinalPath(host_abs_path) == PathJoin(HOST_FILESYSTEM_ROOT, LStrip(host_abs_path))

TraversalIfSubstring(relative_path) ==
    \E i \in 1..(Len(relative_path) - 1) :
        relative_path[i] = "." /\ relative_path[i + 1] = "."

\* `".." in relative_path.split("/")`
HasTraversal(relative_path) ==
    \E i \in 1..Len(Split(relative_path)) : Split(relative_path)[i] = <<".", ".">>

NoTarget ==
    [matched |-> FALSE, mount |-> <<>>, relative_path |-> <<>>,
     host_abs_path |-> <<>>, final_path |-> <<>>]

\* the locals of a handler once the mount loop and the path mapping have run
Target(kind, ms, path) ==
    LET best == BestMatch(ms, path)
    IN  IF best = <<>> THEN NoTarget
        ELSE LET host_abs_path ==
                     IF kind = "write" THEN HostAbsPathWrite(best[1], path)
                     ELSE HostAbsPathRead(best[1], path)
             IN  [matched |-> TRUE, mount |-> best,
                  relative_path |-> RelativePath(best[1], path),
                  host_abs_path |-> host_abs_path,
                  final_path |-> FinalPath(host_abs_path)]

----------------------------------------------------------------------------
(* Filesystems: what the kernel does with a path *)

\* lexical resolution of a path to the list of its components
RECURSIVE NormLoop(_, _)
NormLoop(segs, acc) ==
    IF segs = <<>> THEN acc
    ELSE LET s == Head(segs)
         IN  IF s = <<>> \/ s = <<".">> THEN NormLoop(Tail(segs), acc)
             ELSE IF s = <<".", ".">>
                  THEN NormLoop(Tail(segs),
                                IF acc = <<>> THEN acc
                                ELSE SubSeq(acc, 1, Len(acc) - 1))
                  ELSE NormLoop(Tail(segs), Append(acc, s))

FsKey(p) == NormLoop(Split(p), <<>>)

\* a path written with a trailing slash names a directory only
TrailingSlash(p) == p # <<>> /\ p[Len(p)] = "/" /\ FsKey(p) # <<>>

IsPrefix(a, b) == Len(a) <= Len(b) /\ SubSeq(b, 1, Len(a)) = a
IsStrictPrefix(a, b) == Len(a) < Len(b) /\ SubSeq(b, 1, Len(a)) = a

RootKey == FsKey(HOST_FILESYSTEM_ROOT)

\* the limit of the text view: `1024 * 1024`
SizeLimit == 1048576

\* File data: `bytes` explicit bytes followed by `fill` bytes 0x61 ("a").
\* Text:      `chars` explicit code points followed by `fill` characters "a".
NoData == [bytes |-> <<>>, fill |-> 0]
Absent == [type |-> "absent", data |-> NoData]
Dir == [type |-> "dir", data |-> NoData]
Other == [type |-> "other", data |-> NoData]
File(data) == [type |-> "file", data |-> data]
FileSize(e) == Len(e.data.bytes) + e.data.fill

\* files that may exist before any request: text of exactly the limit, text of
\* one byte more, and a short file that is not UTF-8
OldFiles ==
    { File([bytes |-> <<"61">>, fill |-> SizeLimit - 1]),
      File([bytes |-> <<"61">>, fill |-> SizeLimit]),
      File([bytes |-> <<"FF">>, fill |-> 0]) }

Entries == {Absent, Dir, Other} \cup OldFiles

\* the entries a not yet observed path may turn out to hold, given what has
\* been observed of its ancestors and descendants
Possible(fs, key, fixedDirs) ==
    IF key \in DOMAIN fs THEN {fs[key]}
    ELSE IF \E d \in fixedDirs : IsPrefix(key, d) THEN {Dir}
    ELSE { e \in Entries :
             /\ e.type # "absent" =>
                  \A k \in DOMAIN fs : IsStrictPrefix(k, key) => fs[k].type = "dir"
             /\ e.type # "dir" =>
                  \A k \in DOMAIN fs : IsStrictPrefix(key, k) => fs[k].type = "absent" }

Observe(fs, key, e) ==
    [k \in DOMAIN fs \cup {key} |-> IF k = key THEN e ELSE fs[k]]

\* os.path.exists / isfile / isdir of path p holding entry e
Exists(p, e) == e.type # "absent" /\ (TrailingSlash(p) => e.type = "dir")
IsFile(p, e) == e.type = "file" /\ ~TrailingSlash(p)

NeverADirectory(p, e) == FALSE
IsDir(p, e) == e.type = "dir"

----------------------------------------------------------------------------
(* Text and bytes: str.encode('utf-8'), bytes.decode('utf-8'), text-mode I/O *)

\* code points used in request bodies: "a", U+00E9, carriage return, line feed
CodePoints == {"a", "e9", "CR", "LF"}

CharBytes(c) ==
    CASE c = "a" -> <<"61">>
      [] c = "e9" -> <<"C3", "A9">>
      [] c = "CR" -> <<"0D">>
      [] c = "LF" -> <<"0A">>

RECURSIVE EncodeChars(_)
EncodeChars(cs) ==
    IF cs = <<>> THEN <<>> ELSE CharBytes(Head(cs)) \o EncodeChars(Tail(cs))

\* content.encode('utf-8')
Encode(text) == [bytes |-> EncodeChars(text.chars), fill |-> text.fill]

RECURSIVE ValidUtf8(_)
ValidUtf8(bs) ==
    IF bs = <<>> THEN TRUE
    ELSE IF Head(bs) \in {"61", "0D", "0A"} THEN ValidUtf8(Tail(bs))
    ELSE IF Head(bs) = "C3" /\ Len(bs) >= 2 /\ bs[2] = "A9"
         THEN ValidUtf8(Drop(bs, 2))
    ELSE FALSE

RECURSIVE DecodeBytes(_)
DecodeBytes(bs) ==
    IF bs = <<>> THEN <<>>
    ELSE IF Head(bs) = "61" THEN <<"a">> \o DecodeBytes(Tail(bs))
    ELSE IF Head(bs) = "0D" THEN <<"CR">> \o DecodeBytes(Tail(bs))
    ELSE IF Head(bs) = "0A" THEN <<"LF">> \o DecodeBytes(Tail(bs))
    ELSE <<"e9">> \o DecodeBytes(Drop(bs, 2))

\* output.decode('utf-8'); defined when ValidUtf8(data.bytes)
Decode(data) == [chars |-> DecodeBytes(data.bytes), fill |-> data.fill]

\* reading through open(..., 'r') with newline=None: "\r\n" and "\r" become "\n"
RECURSIVE UniversalNewlines(_)
UniversalNewlines(cs) ==
    IF cs = <<>> THEN <<>>
    ELSE IF Head(cs) = "CR"
         THEN IF Len(cs) >= 2 /\ cs[2] = "LF"
              THEN <<"LF">> \o UniversalNewlines(Drop(cs, 2))
              ELSE <<"LF">> \o UniversalNewlines(Tail(cs))
    ELSE <<Head(cs)>> \o UniversalNewlines(Tail(cs))

\* f.read() of a file opened with open(final_path, 'r', encoding='utf-8')
TextRead(data) ==
    [chars |-> UniversalNewlines(Decode(data).chars), fill |-> data.fill]

\* f.write(content) through open(final_path, 'w', encoding='utf-8'): on POSIX
\* "\n" is written as os.linesep = "\n"
TextWrite(text) == Encode(text)

NoText == [chars |-> <<>>, fill |-> 0]

\* create_file_tar: one entry, tarinfo.size = len(content.encode('utf-8'))
create_file_tar(filename, content) ==
    LET file_data == Encode(content)
    IN  [name |-> filename, size |-> Len(file_data.bytes) + file_data.fill,
         data |-> file_data]

----------------------------------------------------------------------------
(* /bin/sh -c "<cmd> '{path}'": the word the shell makes of the quoted path *)

RECURSIVE CountQuotes(_)
CountQuotes(p) ==
    IF p = <<>> THEN 0
    ELSE (IF Head(p) = "'" THEN 1 ELSE 0) + CountQuotes(Tail(p))

RECURSIVE RemoveQuotes(_)
RemoveQuotes(p) ==
    IF p = <<>> THEN <<>>
    ELSE IF Head(p) = "'" THEN RemoveQuotes(Tail(p))
    ELSE <<Head(p)>> \o RemoveQuotes(Tail(p))

\* an odd number of quotes in the path leaves a quote unterminated
ShSyntaxError(p) == CountQuotes(p) % 2 = 1

\* otherwise the quoted and unquoted stretches concatenate to the path without quotes
ShWord(p) == RemoveQuotes(p)

----------------------------------------------------------------------------
(* Responses and the log of calls *)

\* the fixed part of the `detail` of each HTTPException the handlers raise
Detail(kind) ==
    CASE kind = "InvalidPath" -> "Path must be absolute"
      [] kind = "ContainerNotFound" -> "Container not found"
      [] kind = "Traversal" -> "Path traversal detected"
      [] kind = "HostPathNotFound" -> "Path not found on host"
      [] kind = "NotFoundInContainer" ->
             "Path not found or not accessible inside container"
      [] kind = "FileNotInContainer" -> "File not found inside container"
      [] kind = "NotADirectory" -> "Path is not a directory"
      [] kind = "IsADirectory" -> "Cannot download directory directly"
      [] kind = "TooLarge" -> "File too large to view (max 1MB)"
      [] kind = "Binary" -> "Binary file not supported"
      [] kind = "ReadError" -> "Error reading file"
      [] kind = "ParentMissing" -> "Parent directory"
      [] kind = "WriteError" -> "Error writing to host file"
      [] kind = "UploadFailed" -> "Error updating file inside container"
      [] kind = "ArchiveError" -> "Error retrieving file from container"
      [] kind = "ListingError" -> "Error listing files"
      [] OTHER -> ""

\* an HTTP response: `kind` names the raise / return site, `status` its
\* code, `keys` the keys of its JSON body, `content` / `name` the text or the
\* download file name it carries
Resp(kind, status) ==
    [kind |-> kind, status |-> status, keys |-> {"detail"},
     content |-> NoText, name |-> <<>>, detail |-> Detail(kind),
     items |-> <<>>, diagnostic |-> <<>>]

\* {"content": content}
ContentResp(text) ==
    [Resp("Content", 200) EXCEPT !.keys = {"content"}, !.content = text]

\* {"status": "success", "message": ...}
WriteOk == [Resp("WriteOk", 200) EXCEPT !.keys = {"status", "message"}]

\* a list of entries, or a file / archive body: no JSON object
BodyResp(kind, name) == [Resp(kind, 200) EXCEPT !.keys = {}, !.name = name]

NoResp == Resp("none", 0)

\* a call on the host filesystem ("host"), a command run in the container
\* ("exec") or a call of the runtime API ("api")
\* with its argument and, where the handler branches on it, its outcome
EvOut(sys, op, arg, out) ==
    [sys |-> sys, op |-> op, arg |-> arg, out |-> out, tar |-> <<>>,
     output |-> <<>>]

Ev(sys, op, arg) == EvOut(sys, op, arg, "")

HostEvents(log) == { i \in 1..Len(log) : log[i].sys = "host" }
ExecEvents(log) == { i \in 1..Len(log) : log[i].sys = "exec" }
UploadEvents(log) == { i \in 1..Len(log) : log[i].op = "put_archive" }

----------------------------------------------------------------------------
(* get_container_files, mounted branch (lines 670-745) *)

TooLargeInclusive(size) == size >= SizeLimit

\* `if size > 1024 * 1024` (lines 373 and 715)
TooLarge(size) == size > SizeLimit

HostGetOpeningForWriting(t, e, oserr) ==
    [res |-> Resp("ReadError", 500),
     io |-> <<Ev("host", "exists", t.final_path),
              Ev("host", "open_w", t.final_path)>>]

\* after the traversal check: e is what final_path holds, oserr whether the
\* read raises OSError
HostGet(t, e, oserr) ==
    LET f == t.final_path
        x1 == <<Ev("host", "exists", f)>>
        x2 == x1 \o <<Ev("host", "isfile", f)>>
        x3 == x2 \o <<Ev("host", "getsize", f)>>
        x4 == x3 \o <<EvOut("host", "read", f,
                             IF oserr THEN "OSError" ELSE "")>>
        y3 == x2 \o <<Ev("host", "isdir", f)>>
        y4 == y3 \o <<Ev("host", "scandir", f)>>
    IN  IF ~Exists(f, e)
        THEN [res |-> Resp("HostPathNotFound", 404), io |-> x1]
        ELSE IF IsFile(f, e)
        THEN IF TooLarge(FileSize(e))
             THEN [res |-> Resp("TooLarge", 400), io |-> x3]
             ELSE IF oserr
             THEN [res |-> Resp("ReadError", 500), io |-> x4]
             ELSE IF ~ValidUtf8(e.data.bytes)
             THEN [res |-> Resp("Binary", 400), io |-> x4]
             ELSE [res |-> ContentResp(TextRead(e.data)),
                   io |-> x4]
        ELSE IF ~IsDir(f, e)
        THEN [res |-> Resp("NotADirectory", 400), io |-> y3]
        ELSE [res |-> BodyResp("Listing", <<>>), io |-> y4]

----------------------------------------------------------------------------
(* list_files_via_exec (lines 349-528) *)

\* exit status of a command as the handler reads it
Exit(ok) == IF ok THEN "0" ELSE "nonzero"

ExecCmd(op, arg, out) == EvOut("exec", op, arg, out)

\* the calls of the listing part: the stat loop, then `ls -la` if it failed or
\* printed nothing
ListingIo(path, primary, ls_ok) ==
    IF primary THEN <<ExecCmd("stat_loop", RStrip(path), "output")>>
    ELSE <<ExecCmd("stat_loop", RStrip(path), "nothing"),
           ExecCmd("ls", path, Exit(ls_ok))>>

\* e is what the shell's word for the path holds (any entry when the command
\* line does not parse); st is the outcome of `stat -c %s` ("size": exit 0 and
\* a number, "fail": non-zero exit, "garbage": exit 0 and no number), catfail
\* whether `cat` exits non-zero, ls the outcome of the listing commands on a
\* directory ("primary", "fallback", "denied")
ExecGet(path, e, st, catfail, ls) ==
    LET w == ShWord(path)
        bad == ShSyntaxError(path)
        is_dir == ~bad /\ IsDir(w, e)
        is_file == ~bad /\ IsFile(w, e)
        c1 == <<ExecCmd("test_d", path, Exit(is_dir))>>
        c2 == c1 \o <<ExecCmd("test_f", path, Exit(is_file))>>
        c3 == c2 \o <<ExecCmd("stat_size", path, st)>>
        c4 == c3 \o <<ExecCmd("cat", path, Exit(~catfail))>>
    IN  IF ~is_dir /\ is_file
        THEN IF st = "size" /\ TooLarge(FileSize(e))
             THEN [res |-> Resp("TooLarge", 400), io |-> c3]
             ELSE IF catfail
             THEN [res |-> Resp("ReadError", 500), io |-> c4]
             ELSE IF ~ValidUtf8(e.data.bytes)
             THEN [res |-> Resp("Binary", 400), io |-> c4]
             ELSE [res |-> ContentResp(Decode(e.data)), io |-> c4]
        ELSE LET pre == IF is_dir THEN c1 ELSE c2
             IN  IF is_dir /\ ls = "primary"
                 THEN [res |-> BodyResp("Listing", <<>>),
                       io |-> pre \o ListingIo(path, TRUE, TRUE)]
                 ELSE IF \/ is_dir /\ ls = "fallback"
                         \/ ~bad /\ Exists(w, e) /\ e.type = "other"
                 THEN [res |-> BodyResp("Listing", <<>>),
                       io |-> pre \o ListingIo(path, FALSE, TRUE)]
                 ELSE [res |-> Resp("NotFoundInContainer", 404),
                       io |-> pre \o ListingIo(path, FALSE, FALSE)]

----------------------------------------------------------------------------
(* Inputs *)

\* path segments: empty (a doubled or trailing slash), a plain name, "..",
\* a name that contains ".." and has "d" as a string prefix, and the names
\* "'" and "''"
SegSet ==
    { <<>>, <<"d">>, <<".", ".">>, <<"d", ".", ".">>, <<"'">>, <<"'", "'">> }

RECURSIVE AbsPath(_)
AbsPath(segs) ==
    IF segs = <<>> THEN <<>>
    ELSE <<"/">> \o Head(segs) \o AbsPath(Tail(segs))

PathsOver(S, n) ==
    { AbsPath(q) : q \in UNION { [1..k -> S] : k \in 0..n } }

\* requested paths: the empty path, absolute paths, and two relative ones
Paths == PathsOver(SegSet, MaxSegs) \cup { <<"d">>, <<".", ".", "/", "d">> }

\* request bodies: U+00E9, SizeLimit characters "a" (SizeLimit bytes), U+00E9 and
\* SizeLimit - 1 characters "a" (SizeLimit + 1 bytes), and a line "a\r\n"
Texts ==
    { [chars |-> <<"e9">>, fill |-> 0],
      [chars |-> <<"a">>, fill |-> SizeLimit - 1],
      [chars |-> <<"e9">>, fill |-> SizeLimit - 1],
      [chars |-> <<"a", "CR", "LF">>, fill |-> 0] }

Mount(src, dst) == [Source |-> src, Destination |-> dst]

\* the containers a behaviour may run against, by their mount lists
MountConfigs ==
    { <<>>,
      << Mount(<<"/", "s">>, <<"/", "d">>) >>,
      << Mount(<<"/">>, <<"/", "d">>),
         Mount(<<"/", "s">>, <<"/", "d", "/", "d", "/">>) >>,
      << Mount(<<"/", "s">>, <<"/">>) >> }

Kinds == {"get", "download", "write"}

----------------------------------------------------------------------------
(* The handlers *)

Init ==
    /\ mounts \in MountConfigs
    /\ hostfs = <<>>
    /\ ctrfs = <<>>
    /\ req = [kind |-> "none", path |-> <<>>, content |-> NoText]
    /\ pc = "idle"
    /\ tgt = NoTarget
    /\ res = NoResp
    /\ io = <<>>
    /\ client = "none"
    /\ nreq = 0
    /\ lastWrite = <<>>
    /\ OthersIdle

ValidPathIfNotEmpty(path) == path # <<>>

\* `if not path or not path.startswith("/")`
ValidPath(path) == path # <<>> /\ path[1] = "/"

\* Input validation, then get_docker_client(): the first lines of the three
\* handlers
Accept(kind, path, content) ==
    /\ req' = [kind |-> kind, path |-> path, content |-> content]
    /\ nreq' = nreq + 1
    /\ tgt' = NoTarget
    /\ io' = <<>>
    /\ IF ~ValidPath(path)
       THEN /\ res' = Resp("InvalidPath", 400)
            /\ pc' = "done"
            /\ client' = "none"
       ELSE /\ res' = NoResp
            /\ pc' = "fetch"
            /\ client' = "open"
    /\ UNCHANGED <<mounts, hostfs, ctrfs, lastWrite>>

\* A request arrives
Request(kind, path, content) ==
    /\ pc = "idle"
    /\ kind # "write" => content = NoText
    /\ Accept(kind, path, content)
    /\ UNCHANGED others

\* After a successful write, a get for the path just written
ReadBack ==
    /\ pc = "done"
    /\ lastWrite # <<>>
    /\ nreq < 1 + MaxReads
    /\ Accept("get", req.path, NoText)
    /\ UNCHANGED others

\* `finally: client.close()` with the response r
Done(r) ==
    /\ res' = r
    /\ pc' = "done"
    /\ client' = "closed"

StageIgnoringMounts(kind, matched) ==
    IF kind = "download" THEN "archive" ELSE "exec"

\* `if not best_match: return await list_files_via_exec(...)` (get),
\* `if best_match:` (download, write): which branch serves the request
Stage(kind, matched) ==
    IF matched THEN "host"
    ELSE IF kind = "download" THEN "archive"
    ELSE "exec"

\* client.containers.get(container_id), the mount loop and the path mapping
FetchContainer ==
    /\ pc = "fetch"
    /\ \E found \in BOOLEAN :
         IF ~found
         THEN /\ Done(Resp("ContainerNotFound", 404))
              /\ io' = Append(io, EvOut("api", "get_container", <<>>,
                                        "NotFound"))
              /\ UNCHANGED tgt
         ELSE /\ tgt' = Target(req.kind, mounts, req.path)
              /\ io' = Append(io, Ev("api", "get_container", <<>>))
              /\ pc' = Stage(req.kind, tgt'.matched)
              /\ UNCHANGED <<res, client>>
    /\ UNCHANGED <<mounts, hostfs, ctrfs, req, nreq, lastWrite, others>>

\* get_container_files on a mounted path
HostGetStep ==
    /\ pc = "host" /\ req.kind = "get"
    /\ IF HasTraversal(tgt.relative_path)
       THEN /\ Done(Resp("Traversal", 403))
            /\ UNCHANGED <<hostfs, io>>
       ELSE \E e \in Possible(hostfs, FsKey(tgt.final_path), {RootKey}),
               oserr \in BOOLEAN :
              LET r == HostGet(tgt, e, oserr)
              IN  /\ hostfs' = Observe(hostfs, FsKey(tgt.final_path), e)
                  /\ Done(r.res)
                  /\ io' = io \o r.io
    /\ UNCHANGED <<mounts, ctrfs, req, tgt, nreq, lastWrite, others>>

\* the calls of log up to the k-th, which raises docker.errors.NotFound (the
\* runtime answers 404 to the exec)
Raised(log, k) ==
    SubSeq(log, 1, k - 1)
    \o << [log[k] EXCEPT !.out = "NotFound", !.output = <<>>] >>

\* get_container_files on a path no mount matches: list_files_via_exec; k is
\* the exec_run that raises docker.errors.NotFound, 0 when none does
ExecGetStep ==
    /\ pc = "exec" /\ req.kind = "get"
    /\ \E e \in Possible(ctrfs, FsKey(ShWord(req.path)), {<<>>}),
          st \in {"size", "fail", "garbage"},
          catfail \in BOOLEAN,
          ls \in {"primary", "fallback", "denied"},
          k \in 0..4 :
         LET r == ExecGet(req.path, e, st, catfail, ls)
         IN  IF k = 0
             THEN /\ ctrfs' = IF ShSyntaxError(req.path) THEN ctrfs
                              ELSE Observe(ctrfs, FsKey(ShWord(req.path)), e)
                  /\ Done(r.res)
                  /\ io' = io \o r.io
             ELSE /\ k <= Len(r.io)
                  /\ Done(Resp("ContainerNotFound", 404))
                  /\ io' = io \o Raised(r.io, k)
                  /\ ctrfs' = IF k = 1 \/ ShSyntaxError(req.path) THEN ctrfs
                              ELSE Observe(ctrfs, FsKey(ShWord(req.path)), e)
    /\ UNCHANGED <<mounts, hostfs, req, tgt, nreq, lastWrite, others>>

\* tar.addfile(tarinfo, fileobj) stores tarinfo.size bytes of the data; the
\* runtime extracts what the archive stores
Extracted(tar) ==
    LET n == tar.size
        b == tar.data.bytes
    IN  IF n >= Len(b) + tar.data.fill THEN tar.data
        ELSE IF n <= Len(b) THEN [bytes |-> SubSeq(b, 1, n), fill |-> 0]
        ELSE [bytes |-> b, fill |-> n - Len(b)]

Written(path, content, route) ==
    << [path |-> path, content |-> content, route |-> route] >>

\* update_container_file on a mounted path (lines 572-603)
HostWriteStep ==
    /\ pc = "host" /\ req.kind = "write"
    /\ IF HasTraversal(tgt.relative_path)
       THEN /\ Done(Resp("Traversal", 403))
            /\ UNCHANGED <<hostfs, io, lastWrite>>
       ELSE LET f == tgt.final_path
                parent_dir == Dirname(f)
            IN  \E pe \in Possible(hostfs, FsKey(parent_dir), {RootKey}) :
                  LET fs1 == Observe(hostfs, FsKey(parent_dir), pe)
                      x1 == Append(io, Ev("host", "exists", parent_dir))
                  IN  IF ~Exists(parent_dir, pe)
                      THEN /\ Done(Resp("ParentMissing", 404))
                           /\ hostfs' = fs1
                           /\ io' = x1
                           /\ UNCHANGED lastWrite
                      ELSE \E e \in Possible(fs1, FsKey(f), {RootKey}),
                              oserr \in BOOLEAN :
                             LET x2 == Append(x1, Ev("host", "open_w", f))
                             IN  IF \/ oserr
                                    \/ TrailingSlash(f)
                                    \/ e.type \in {"dir", "other"}
                                    \/ pe.type # "dir"
                                 THEN /\ Done(Resp("WriteError", 500))
                                      /\ hostfs' = Observe(fs1, FsKey(f), e)
                                      /\ io' = x2
                                      /\ UNCHANGED lastWrite
                                 ELSE /\ Done(WriteOk)
                                      /\ hostfs' = Observe(fs1, FsKey(f),
                                                     File(TextWrite(req.content)))
                                      /\ io' = Append(x2, Ev("host", "write", f))
                                      /\ lastWrite' = Written(req.path, req.content, "mount")
    /\ UNCHANGED <<mounts, ctrfs, req, tgt, nreq, others>>

\* `if exit_code != 0: raise` after `test -d '{parent_dir_container}'`
ParentCheckPasses(parent_ok) == parent_ok

\* update_container_file on a path no mount matches (lines 605-623)
ExecWriteStep ==
    /\ pc = "exec" /\ req.kind = "write"
    /\ LET parent == Dirname(req.path)
           filename == Basename(req.path)
           tar_data == create_file_tar(filename, req.content)
           bad == ShSyntaxError(parent)
           parent_ok(te) == ~bad /\ IsDir(ShWord(parent), te)
           x1(te) == Append(io, ExecCmd("test_d", parent, Exit(parent_ok(te))))
           x2(te) == Append(x1(te), [Ev("api", "put_archive", parent)
                                         EXCEPT !.tar = <<tar_data>>])
           tk == FsKey(ShWord(parent))
           ak == FsKey(parent)
           xk == FsKey(parent \o <<"/">> \o filename)
       IN  \E te \in Possible(ctrfs, tk, {<<>>}), notfound \in BOOLEAN :
             LET fs1 == IF bad THEN ctrfs ELSE Observe(ctrfs, tk, te)
             IN  IF notfound
                 THEN /\ Done(Resp("ContainerNotFound", 404))
                      /\ io' = Append(io, ExecCmd("test_d", parent, "NotFound"))
                      /\ UNCHANGED <<ctrfs, lastWrite>>
                 ELSE
                 IF ~ParentCheckPasses(parent_ok(te))
                 THEN /\ Done(Resp("ParentMissing", 404))
                      /\ ctrfs' = fs1
                      /\ io' = x1(te)
                      /\ UNCHANGED lastWrite
                 ELSE \E ae \in Possible(fs1, ak, {<<>>}) :
                        LET fs2 == Observe(fs1, ak, ae)
                        IN  IF ae.type # "dir" \/ filename \in {<<".">>, <<".", ".">>}
                            THEN /\ Done(Resp("UploadFailed", 500))
                                 /\ ctrfs' = fs2
                                 /\ io' = x2(te)
                                 /\ UNCHANGED lastWrite
                            ELSE \E xe \in Possible(fs2, xk, {<<>>}),
                                    rejected \in BOOLEAN :
                                   /\ io' = x2(te)
                                   /\ IF rejected \/ (filename # <<>> /\ xe.type = "dir")
                                      THEN /\ Done(Resp("UploadFailed", 500))
                                           /\ ctrfs' = Observe(fs2, xk, xe)
                                           /\ UNCHANGED lastWrite
                                      ELSE /\ Done(WriteOk)
                                           /\ ctrfs' = IF filename = <<>> THEN fs2
                                                       ELSE Observe(fs2, xk, File(Extracted(tar_data)))
                                           /\ lastWrite' = Written(req.path, req.content, "exec")
    /\ UNCHANGED <<mounts, hostfs, req, tgt, nreq, others>>

\* download_container_file on a mounted path (lines 191-213)
HostDownloadStep ==
    /\ pc = "host" /\ req.kind = "download"
    /\ IF HasTraversal(tgt.relative_path)
       THEN /\ Done(Resp("Traversal", 403))
            /\ UNCHANGED <<hostfs, io>>
       ELSE LET f == tgt.final_path
            IN  \E e \in Possible(hostfs, FsKey(f), {RootKey}) :
                  /\ hostfs' = Observe(hostfs, FsKey(f), e)
                  /\ IF ~Exists(f, e)
                     THEN /\ pc' = "archive"
                          /\ io' = Append(io, Ev("host", "exists", f))
                          /\ UNCHANGED <<res, client>>
                     ELSE IF IsDir(f, e)
                     THEN /\ Done(Resp("IsADirectory", 400))
                          /\ io' = io \o <<Ev("host", "exists", f), Ev("host", "isdir", f)>>
                     ELSE /\ Done(BodyResp("FileBody", Basename(req.path)))
                          /\ io' = io \o <<Ev("host", "exists", f), Ev("host", "isdir", f)>>
    /\ UNCHANGED <<mounts, ctrfs, req, tgt, nreq, lastWrite, others>>

\* download_container_file, container.get_archive(path) (lines 215-227)
ArchiveStep ==
    /\ pc = "archive"
    /\ \E ce \in Possible(ctrfs, FsKey(req.path), {<<>>}), err \in BOOLEAN :
         /\ ctrfs' = Observe(ctrfs, FsKey(req.path), ce)
         /\ io' = Append(io, Ev("api", "get_archive", req.path))
         /\ IF ~Exists(req.path, ce)
            THEN Done(Resp("FileNotInContainer", 404))
            ELSE IF err
            THEN Done(Resp("ArchiveError", 500))
            ELSE Done(BodyResp("Archive", Basename(req.path) \o <<".", "t", "a", "r">>))
    /\ UNCHANGED <<mounts, hostfs, req, tgt, nreq, lastWrite, others>>

Next ==
    \/ \E kind \in Kinds, path \in Paths, content \in Texts \cup {NoText} :
         Request(kind, path, content)
    \/ FetchContainer
    \/ HostGetStep
    \/ ExecGetStep
    \/ HostWriteStep
    \/ ExecWriteStep
    \/ HostDownloadStep
    \/ ArchiveStep

\* one request against one container
Spec == Init /\ [][Next]_vars

NextRoundTrip ==
    \/ \E path \in Paths, content \in Texts : Request("write", path, content)
    \/ ReadBack
    \/ FetchContainer
    \/ HostWriteStep
    \/ ExecWriteStep
    \/ HostGetStep
    \/ ExecGetStep

\* a write, then reads of the path written
SpecRoundTrip == Init /\ [][NextRoundTrip]_vars

----------------------------------------------------------------------------
(* Mount resolution and path mapping alone, over all short mount lists *)

ResolveDests ==
    { <<"/">>, <<"/", "d">>, <<"/", "d", "/">>, <<"/", "d", "/", "d">>,
      <<"/", "d", ".", ".">> }

ResolveMounts == { Mount(<<"/", "s">>, d) : d \in ResolveDests }

ResolveMountLists == UNION { [1..k -> ResolveMounts] : k \in 0..MaxMounts }

InitResolve ==
    /\ mounts \in ResolveMountLists
    /\ hostfs = <<>>
    /\ ctrfs = <<>>
    /\ req \in { [kind |-> "none", path |-> p, content |-> NoText] :
                    p \in { q \in Paths : ValidPath(q) } }
    /\ pc = "input"
    /\ tgt = NoTarget
    /\ res = NoResp
    /\ io = <<>>
    /\ client = "none"
    /\ nreq = 0
    /\ lastWrite = <<>>
    /\ OthersIdle

Resolve(kind) ==
    /\ pc = "input"
    /\ req' = [req EXCEPT !.kind = kind]
    /\ tgt' = Target(kind, mounts, req.path)
    /\ pc' = "resolved"
    /\ UNCHANGED <<mounts, hostfs, ctrfs, res, io, client, nreq, lastWrite, others>>

ResolveGet == Resolve("get")
ResolveDownload == Resolve("download")
ResolveWrite == Resolve("write")

NextResolve == ResolveGet \/ ResolveDownload \/ ResolveWrite

SpecResolve == InitResolve /\ [][NextResolve]_vars

----------------------------------------------------------------------------
(* A download, then gets of the same path *)

\* a tmpfs mount is listed in Mounts with an empty Source: what the container
\* holds under its destination is nowhere under HOST_FILESYSTEM_ROOT
ProbeMountConfigs ==
    MountConfigs \cup { << Mount(<<>>, <<"/", "d">>) >> }

InitProbe ==
    /\ mounts \in ProbeMountConfigs
    /\ hostfs = <<>>
    /\ ctrfs = <<>>
    /\ req = [kind |-> "none", path |-> <<>>, content |-> NoText]
    /\ pc = "idle"
    /\ tgt = NoTarget
    /\ res = NoResp
    /\ io = <<>>
    /\ client = "none"
    /\ nreq = 0
    /\ lastWrite = <<>>
    /\ OthersIdle

\* After a download, a get for the same path
GetAgain ==
    /\ pc = "done"
    /\ req.kind = "download"
    /\ nreq < 1 + MaxReads
    /\ Accept("get", req.path, NoText)
    /\ UNCHANGED others

NextProbe ==
    \/ \E path \in Paths : Request("download", path, NoText)
    \/ GetAgain
    \/ FetchContainer
    \/ HostDownloadStep
    \/ ArchiveStep
    \/ HostGetStep
    \/ ExecGetStep

SpecProbe == InitProbe /\ [][NextProbe]_vars

----------------------------------------------------------------------------
(* list_files_via_exec, the directory listing (lines 390-528): the text the  *)
(* commands print and what the two parsers make of it. Text is a sequence of *)
(* characters; "LF" is the line feed, "FF" a byte that is not UTF-8, and the *)
(* words stat prints for %F are single characters of the model.              *)

MaxChildren == 2

\* s.split(c)
RECURSIVE SplitOn(_, _)
SplitOn(s, c) ==
    IF \E i \in 1..Len(s) : s[i] = c
    THEN LET i == CHOOSE k \in 1..Len(s) :
                     s[k] = c /\ \A j \in 1..(k - 1) : s[j] # c
         IN  <<SubSeq(s, 1, i - 1)>> \o SplitOn(Drop(s, i), c)
    ELSE <<s>>

Whitespace == {" ", "LF"}

\* s.strip()
RECURSIVE Strip(_)
Strip(s) ==
    IF s = <<>> THEN s
    ELSE IF s[1] \in Whitespace THEN Strip(Tail(s))
    ELSE IF s[Len(s)] \in Whitespace THEN Strip(SubSeq(s, 1, Len(s) - 1))
    ELSE s

\* re.split(r'\s+', s) of a stripped s
RECURSIVE SplitWhitespace(_)
SplitWhitespace(s) ==
    IF \E i \in 1..Len(s) : s[i] \in Whitespace
    THEN LET i == CHOOSE k \in 1..Len(s) :
                     s[k] \in Whitespace /\ \A j \in 1..(k - 1) : s[j] \notin Whitespace
         IN  <<SubSeq(s, 1, i - 1)>> \o SplitWhitespace(Strip(Drop(s, i)))
    ELSE <<s>>

\* " ".join(parts)
RECURSIVE JoinSpace(_)
JoinSpace(parts) ==
    IF parts = <<>> THEN <<>>
    ELSE IF Len(parts) = 1 THEN parts[1]
    ELSE parts[1] \o <<" ">> \o JoinSpace(Tail(parts))

RECURSIVE Flatten(_)
Flatten(ss) == IF ss = <<>> THEN <<>> ELSE Head(ss) \o Flatten(Tail(ss))

\* the position of the first occurrence of sub in s, 0 when there is none
Find(s, sub) ==
    LET hits == { i \in 1..(Len(s) - Len(sub) + 1) :
                    SubSeq(s, i, i + Len(sub) - 1) = sub }
    IN  IF hits = {} THEN 0 ELSE CHOOSE i \in hits : \A j \in hits : i <= j

DigitChars == <<"0", "1", "2", "3", "4", "5", "6", "7", "8", "9">>

\* str(n) of a natural number
RECURSIVE Digits(_)
Digits(n) ==
    IF n < 10 THEN <<DigitChars[n + 1]>>
    ELSE Digits(n \div 10) \o <<DigitChars[(n % 10) + 1]>>

\* int(s) raises ValueError unless s is a number
IsInt(s) ==
    /\ s # <<>>
    /\ \A i \in 1..Len(s) : \E d \in 1..10 : s[i] = DigitChars[d]

RECURSIVE IntOf(_)
IntOf(s) ==
    IF s = <<>> THEN 0
    ELSE 10 * IntOf(SubSeq(s, 1, Len(s) - 1))
         + ((CHOOSE d \in 1..10 : s[Len(s)] = DigitChars[d]) - 1)

\* bytes.decode('utf-8') raises UnicodeDecodeError
Undecodable(s) == \E i \in 1..Len(s) : s[i] = "FF"

\* a symbolic link
Link(target) == [type |-> "link", data |-> NoData, target |-> target]

\* a regular file of 7 bytes
SmallFile == File([bytes |-> <<"61">>, fill |-> 6])

\* file names in the order the shell and ls sort them: a hidden name, names
\* with one and with two embedded spaces, a name with the delimiter of the stat
\* format, plain names, and a name that is not UTF-8
NameOrder ==
    << <<".", "h">>, <<"a">>, <<"a", " ", " ", "b">>, <<"a", " ", "b">>,
       <<"a", "|", "b">>, <<"c">>, <<"d">>, <<"n">>, <<"FF">> >>

Rank(name) == CHOOSE i \in 1..Len(NameOrder) : NameOrder[i] = name

RECURSIVE SortNames(_)
SortNames(S) ==
    IF S = {} THEN <<>>
    ELSE LET m == CHOOSE x \in S : \A y \in S : Rank(x) <= Rank(y)
         IN  <<m>> \o SortNames(S \ {m})

\* what the directory /d may hold: "a" is a directory (a mount point in some
\* containers), "n" a link to it, the others regular files
ListChildren ==
    { [name |-> <<"a">>, entry |-> Dir],
      [name |-> <<"n">>, entry |-> Link(<<"a">>)] }
    \cup { [name |-> n, entry |-> SmallFile] :
             n \in { <<".", "h">>, <<"a", " ", " ", "b">>, <<"a", " ", "b">>,
                     <<"a", "|", "b">>, <<"c">>, <<"FF">> } }

\* the container's filesystem with /d holding entry e and the children kids
ContainerWith(e, kids) ==
    [k \in {<<>>, << <<"d">> >>} \cup { << <<"d">>, c.name >> : c \in kids } |->
        IF k = <<>> THEN Dir
        ELSE IF Len(k) = 1 THEN e
        ELSE (CHOOSE c \in kids : c.name = k[2]).entry]

ListContainers ==
    { ContainerWith(Dir, kids) :
        kids \in { S \in SUBSET ListChildren : Cardinality(S) <= MaxChildren } }
    \cup { ContainerWith(e, {}) : e \in {Absent, Other, SmallFile} }

\* in a container given whole, what is not recorded does not exist
Lookup(fs, key) == IF key \in DOMAIN fs THEN fs[key] ELSE Absent

\* the names of the children of the directory at key, sorted
ChildNames(fs, key) ==
    IF Lookup(fs, key).type # "dir" THEN <<>>
    ELSE SortNames({ k[Len(k)] : k \in { x \in DOMAIN fs :
                        /\ Len(x) = Len(key) + 1
                        /\ SubSeq(x, 1, Len(key)) = key
                        /\ fs[x].type # "absent" } })

\* stat's %s, %Y and %F, and the first character of ls's permission field
StatSize(e) ==
    IF e.type = "file" THEN FileSize(e)
    ELSE IF e.type = "dir" THEN 4096
    ELSE IF e.type = "link" THEN Len(e.target)
    ELSE 0

StatMTime(e) == 1700000000

StatType(e) ==
    CASE e.type = "file" -> "regular file"
      [] e.type = "dir" -> "directory"
      [] e.type = "link" -> "symbolic link"
      [] OTHER -> "character special file"

TypeChar(e) ==
    CASE e.type = "file" -> "-"
      [] e.type = "dir" -> "d"
      [] e.type = "link" -> "l"
      [] OTHER -> "c"

\* the names a glob `*` (hidden = FALSE) or ls -a (hidden = TRUE) shows
RECURSIVE ShownNames(_, _)
ShownNames(s, hidden) ==
    IF s = <<>> THEN <<>>
    ELSE IF ~hidden /\ Head(s)[1] = "." THEN ShownNames(Tail(s), hidden)
    ELSE <<Head(s)>> \o ShownNames(Tail(s), hidden)

\* one line of `stat -c '%n|%s|%Y|%F' "$f"`
StatLine(fs, word, key, name) ==
    LET e == fs[Append(key, name)]
    IN  word \o <<"/">> \o name \o <<"|">> \o Digits(StatSize(e)) \o <<"|">>
        \o Digits(StatMTime(e)) \o <<"|">> \o <<StatType(e)>> \o <<"LF">>

\* for f in '{path.rstrip("/")}'/*; do stat -c '%n|%s|%Y|%F' "$f" 2>/dev/null; done
\* stat_ok: the container has a stat that knows -c; last_fails: the stat of the
\* last name fails (the file is gone since the glob was expanded)
StatLoopRun(fs, path, stat_ok, last_fails) ==
    LET pattern == RStrip(path)
        word == ShWord(pattern)
        key == FsKey(word)
        names == ShownNames(ChildNames(fs, key), FALSE)
        shown == IF last_fails THEN SubSeq(names, 1, Len(names) - 1) ELSE names
    IN  IF ShSyntaxError(pattern)
        THEN [exit |-> "nonzero", output |-> <<"sh: syntax error">>]
        ELSE IF names = <<>> \/ ~stat_ok
        THEN [exit |-> "nonzero", output |-> <<>>]
        ELSE [exit |-> IF last_fails THEN "nonzero" ELSE "0",
              output |-> Flatten([i \in 1..Len(shown) |->
                                    StatLine(fs, word, key, shown[i])])]

\* one line of ls -la: permissions, links, owner, group, size, date, name
LsLine(e, shown_name) ==
    <<TypeChar(e), "rwxr-xr-x", " ", " ", "1", " ", "root", " ", "root", " ", " ">>
    \o Digits(StatSize(e)) \o <<" ", "Nov", " ", " ", "2", " ", "12:00", " ">>
    \o shown_name
    \o (IF e.type = "link" THEN <<" ", "-", ">", " ">> \o e.target ELSE <<>>)
    \o <<"LF">>

\* ls -la '{path}'; ls_ok: the container has an ls and its user may read the path
LsRun(fs, path, ls_ok) ==
    LET word == ShWord(path)
        key == FsKey(word)
        e == Lookup(fs, key)
        names == ChildNames(fs, key)
    IN  IF ShSyntaxError(path)
        THEN [exit |-> "nonzero", output |-> <<"sh: syntax error">>]
        ELSE IF ~Exists(word, e)
        THEN [exit |-> "nonzero", output |-> <<"ls: No such file or directory">>]
        ELSE IF ~ls_ok
        THEN [exit |-> "nonzero", output |-> <<"ls: Permission denied">>]
        ELSE IF e.type = "dir"
        THEN [exit |-> "0",
              output |-> <<"total", " ", "8", "LF">>
                         \o LsLine(Dir, <<".">>) \o LsLine(Dir, <<".", ".">>)
                         \o Flatten([i \in 1..Len(names) |->
                                       LsLine(fs[Append(key, names[i])], names[i])])]
        ELSE [exit |-> "0", output |-> LsLine(e, word)]

\* mount_destinations (lines 393-397)
MountDestinations(ms) ==
    { RStrip(ms[i].Destination) :
        i \in { j \in 1..Len(ms) : ms[j].Destination # <<>> } }

Item(name, type, size, modified, is_symlink, is_mounted) ==
    [name |-> name, type |-> type, size |-> size, modified |-> modified,
     is_symlink |-> is_symlink, is_mounted |-> is_mounted]

\* `"directory" in type_str`, the words of %F being single characters here
HasWord(type_str, w) == \E i \in 1..Len(type_str) : type_str[i] = w

\* `if len(parts) >= 4`
PartsMinimum == 4

\* a line of the stat loop raises ValueError: int() of its second or third
\* field
PrimaryRaises(line) ==
    LET parts == SplitOn(line, "|")
    IN  Len(parts) >= PartsMinimum /\ (~IsInt(parts[2]) \/ ~IsInt(parts[3]))

\* a line of the stat loop that does not raise (lines 421-455): <<>> when the
\* line is skipped, <<item>> when it yields an entry
PrimaryItem(line, dests, is_dir) ==
    LET parts == SplitOn(line, "|")
    IN  IF Len(parts) < PartsMinimum THEN <<>>
        ELSE LET full_path == parts[1]
                 type_str == parts[4]
                 name == Basename(full_path)
                 item_type == IF HasWord(type_str, "directory")
                              THEN "directory" ELSE "file"
             IN  << Item(name,
                         IF is_dir /\ name = <<>> THEN "directory" ELSE item_type,
                         IntOf(parts[2]), IntOf(parts[3]),
                         HasWord(type_str, "symbolic link"),
                         RStrip(full_path) \in dests) >>

\* `if len(parts) < 8: continue` and `if len(parts) > 8`: the name starts at
\* index 8
NameIndex == 8

\* a line of ls -la (lines 475-526): <<>> when the line is skipped
FallbackItem(line, path_clean, dests) ==
    LET parts == SplitWhitespace(Strip(line))
    IN  IF StartsWith(line, <<"total", " ">>) THEN <<>>
        ELSE IF Len(parts) < NameIndex THEN <<>>
        ELSE IF Len(parts) > NameIndex
        THEN LET perms == parts[1]
                 joined == JoinSpace(SubSeq(parts, NameIndex + 1, Len(parts)))
                 arrow == Find(joined, <<" ", "-", ">", " ">>)
                 name == IF arrow > 0 THEN SubSeq(joined, 1, arrow - 1) ELSE joined
             IN  IF joined = <<".">> \/ joined = <<".", ".">> THEN <<>>
                 ELSE << Item(name,
                              IF StartsWith(perms, <<"d">>) THEN "directory" ELSE "file",
                              IF IsInt(parts[5]) THEN IntOf(parts[5]) ELSE 0,
                              0,
                              StartsWith(perms, <<"l">>),
                              (path_clean \o <<"/">> \o name) \in dests) >>
        ELSE <<>>

\* the loop over the lines: the items so far, or the exception that ends it
RECURSIVE PrimaryLoop(_, _, _, _)
PrimaryLoop(lines, items, dests, is_dir) ==
    IF lines = <<>> THEN [raised |-> FALSE, items |-> items]
    ELSE IF PrimaryRaises(Head(lines)) THEN [raised |-> TRUE, items |-> <<>>]
    ELSE PrimaryLoop(Tail(lines), items \o PrimaryItem(Head(lines), dests, is_dir),
                     dests, is_dir)

RECURSIVE FallbackLoop(_, _, _, _)
FallbackLoop(lines, items, path_clean, dests) ==
    IF lines = <<>> THEN items
    ELSE FallbackLoop(Tail(lines),
                      items \o FallbackItem(Head(lines), path_clean, dests),
                      path_clean, dests)

PrimaryUsableIfOutput(exit, output) == output # <<>>

\* `if exec_result.exit_code == 0 and exec_result.output`
PrimaryUsable(exit, output) == exit = "0" /\ output # <<>>

LsNeverFails(exit) == FALSE

\* `if exec_result.exit_code != 0` after ls -la
LsFailed(exit) == exit # "0"

ListingResp(items) == [BodyResp("Listing", <<>>) EXCEPT !.items = items]

\* list_files_via_exec on the container fs given whole: the two tests, the
\* file branch, the stat loop and the ls fallback
ListFilesViaExec(fs, path, ms, stat_ok, last_fails, ls_ok) ==
    LET w == ShWord(path)
        bad == ShSyntaxError(path)
        e == Lookup(fs, FsKey(w))
        is_dir == ~bad /\ IsDir(w, e)
        is_file == ~bad /\ IsFile(w, e)
        c1 == <<ExecCmd("test_d", path, Exit(is_dir))>>
        c2 == c1 \o <<ExecCmd("test_f", path, Exit(is_file))>>
        pre == IF is_dir THEN c1 ELSE c2
        dests == MountDestinations(ms)
        st == StatLoopRun(fs, path, stat_ok, last_fails)
        ls == LsRun(fs, path, ls_ok)
        x1 == pre \o << [ExecCmd("stat_loop", RStrip(path), st.exit)
                            EXCEPT !.output = st.output] >>
        x2 == x1 \o << [ExecCmd("ls", path, ls.exit)
                            EXCEPT !.output = ls.output] >>
        primary == PrimaryLoop(SplitOn(Strip(st.output), "LF"), <<>>, dests, is_dir)
        fallback ==
            IF LsFailed(ls.exit)
            THEN [res |-> [Resp("NotFoundInContainer", 404)
                              EXCEPT !.diagnostic = ls.output],
                  io |-> x2]
            ELSE IF Undecodable(ls.output)
            THEN [res |-> Resp("ListingError", 500), io |-> x2]
            ELSE [res |-> ListingResp(FallbackLoop(SplitOn(Strip(ls.output), "LF"),
                                                   <<>>, RStrip(path), dests)),
                  io |-> x2]
    IN  IF ~is_dir /\ is_file
        THEN ExecGet(path, e, "size", FALSE, "primary")
        ELSE IF PrimaryUsable(st.exit, st.output)
        THEN IF Undecodable(st.output)
             THEN [res |-> Resp("ListingError", 500), io |-> x1]
             ELSE IF Strip(st.output) = <<>> THEN fallback
             ELSE IF primary.raised
             THEN [res |-> Resp("ListingError", 500), io |-> x1]
             ELSE [res |-> ListingResp(primary.items), io |-> x1]
        ELSE fallback

\* get_container_files on a path no mount matches, the container given whole
ListFilesStep ==
    /\ pc = "exec" /\ req.kind = "get"
    /\ \E stat_ok \in BOOLEAN, last_fails \in BOOLEAN, ls_ok \in BOOLEAN,
          k \in 0..4 :
         LET r == ListFilesViaExec(ctrfs, req.path, mounts,
                                   stat_ok, last_fails, ls_ok)
         IN  IF k = 0
             THEN Done(r.res) /\ io' = io \o r.io
             ELSE /\ k <= Len(r.io)
                  /\ Done(Resp("ContainerNotFound", 404))
                  /\ io' = io \o Raised(r.io, k)
    /\ UNCHANGED <<mounts, hostfs, ctrfs, req, tgt, nreq, lastWrite, others>>

\* no mount, and /d/a as a mount point written without and with a slash
ListMountConfigs ==
    { <<>>,
      << Mount(<<"/", "s">>, <<"/", "d", "/", "a">>) >>,
      << Mount(<<"/", "s">>, <<"/", "d", "/", "a", "/">>) >> }

\* the paths listed: the root, /d without and with a slash, and a path the
\* shell cannot parse
ListPaths ==
    { <<"/">>, <<"/", "d">>, <<"/", "d", "/">>, <<"/", "d", "'">> }

InitListing ==
    /\ mounts \in ListMountConfigs
    /\ hostfs = <<>>
    /\ ctrfs \in ListContainers
    /\ req = [kind |-> "none", path |-> <<>>, content |-> NoText]
    /\ pc = "idle"
    /\ tgt = NoTarget
    /\ res = NoResp
    /\ io = <<>>
    /\ client = "none"
    /\ nreq = 0
    /\ lastWrite = <<>>
    /\ OthersIdle

NextListing ==
    \/ \E path \in ListPaths : Request("get", path, NoText)
    \/ FetchContainer
    \/ ListFilesStep

\* one get of an unmounted path against a container whose content is given
SpecListing == InitListing /\ [][NextListing]_vars

----------------------------------------------------------------------------
(* A get or a download, then the same request again *)

\* what is kept of a request once the next one starts
Served ==
    << [req |-> req, res |-> res, io |-> io, mounts |-> mounts,
        hostfs |-> hostfs, ctrfs |-> ctrfs] >>

\* After a get or a download, the same request again
Repeat ==
    /\ pc = "done"
    /\ nreq < 1 + MaxReads
    /\ prev' = Served
    /\ Accept(req.kind, req.path, NoText)
    /\ UNCHANGED <<peer, registry, sockets, tasks, emitted, updater, volume, body>>

NextRepeat ==
    \/ \E kind \in {"get", "download"}, path \in Paths :
         Request(kind, path, NoText)
    \/ Repeat
    \/ FetchContainer
    \/ HostGetStep
    \/ ExecGetStep
    \/ HostDownloadStep
    \/ ArchiveStep

SpecRepeat == Init /\ [][NextRepeat]_vars

----------------------------------------------------------------------------
(* Two requests in progress at once: each handler keeps its own locals and   *)
(* its own client, the host filesystem is the one both see, and the          *)
(* container is the same or another one. One request is written in the       *)
(* variables of the handlers, the other waits in peer.                       *)

\* paths of the two requests: /d, /d/ and /d/d
ConcPaths ==
    { <<"/", "d">>, <<"/", "d", "/">>, <<"/", "d", "/", "d">> }

\* no mount, or the host directory /s mounted at /d
ConcMounts == { <<>>, << Mount(<<"/", "s">>, <<"/", "d">>) >> }

ConcTexts == { [chars |-> <<"e9">>, fill |-> 0] }

\* an entry that was first seen after a write had replaced it
Unknown == [type |-> "unknown", data |-> NoData]

\* the locals of a handler
Handler == [req |-> req, pc |-> pc, tgt |-> tgt, res |-> res, io |-> io,
            client |-> client]

HandlerIdle ==
    [req |-> [kind |-> "none", path |-> <<>>, content |-> NoText],
     pc |-> "idle", tgt |-> NoTarget, res |-> NoResp, io |-> <<>>,
     client |-> "none"]

InitConcurrent ==
    /\ mounts \in ConcMounts
    /\ hostfs = <<>>
    /\ ctrfs = <<>>
    /\ req = HandlerIdle.req
    /\ pc = "idle"
    /\ tgt = NoTarget
    /\ res = NoResp
    /\ io = <<>>
    /\ client = "none"
    /\ nreq = 0
    /\ lastWrite = <<>>
    /\ prev = <<>>
    /\ registry = <<>>
    /\ sockets = <<>>
    /\ tasks = <<>>
    /\ emitted = <<>>
    /\ updater = <<>>
    /\ volume = <<>>
    /\ body = <<>>
    /\ \E separate \in BOOLEAN, m \in ConcMounts :
         /\ ~separate => m = mounts
         /\ peer = [id |-> 2, separate |-> separate,
                    attrs |-> IF separate
                              THEN [c \in {"container 1", "container 2"} |->
                                      IF c = "container 1" THEN mounts ELSE m]
                              ELSE [c \in {"container"} |-> mounts],
                    ctrfs |-> <<>>, h |-> HandlerIdle,
                    host0 |-> <<>>, ctr0 |-> <<>>, peer_ctr0 |-> <<>>,
                    written |-> {}]

\* the container request number id names
ContainerOf(id) ==
    IF ~peer.separate THEN "container"
    ELSE IF id = 1 THEN "container 1" ELSE "container 2"

\* the container of the request in the handler's variables
Here == ContainerOf(3 - peer.id)

MountsKeptFromLastCall(c) == mounts

\* `container.attrs.get("Mounts", [])` of the container a call has fetched
FetchedMounts(c) == peer.attrs[c]

\* the entry a successful write has created or replaced
WrittenKeys(route) ==
    IF res.kind # "WriteOk" \/ route # tgt.matched THEN {}
    ELSE IF tgt.matched THEN { FsKey(tgt.final_path) }
    ELSE IF Basename(req.path) = <<>> THEN {}
    ELSE { FsKey(Dirname(req.path) \o <<"/">> \o Basename(req.path)) }

\* what each entry held before the two requests, as far as a request has
\* looked
FirstSeen(seen, fs, wkeys) ==
    [k \in DOMAIN seen \cup DOMAIN fs |->
        IF k \in DOMAIN seen THEN seen[k]
        ELSE IF k \in wkeys THEN Unknown
        ELSE fs[k]]

\* the scheduler leaves one request and resumes the other
Switch ==
    /\ peer # <<>>
    /\ pc # "idle"
    /\ LET c0 == FirstSeen(peer.ctr0, ctrfs, WrittenKeys(FALSE))
       IN  peer' = [id |-> 3 - peer.id,
                    separate |-> peer.separate,
                    attrs |-> peer.attrs,
                    ctrfs |-> ctrfs,
                    h |-> Handler,
                    host0 |-> FirstSeen(peer.host0, hostfs, WrittenKeys(TRUE)),
                    ctr0 |-> IF peer.separate THEN peer.peer_ctr0 ELSE c0,
                    peer_ctr0 |-> IF peer.separate THEN c0 ELSE <<>>,
                    written |-> peer.written
                        \cup { <<"host", k>> : k \in WrittenKeys(TRUE) }
                        \cup { <<Here, k>> : k \in WrittenKeys(FALSE) }]
    /\ req' = peer.h.req
    /\ pc' = peer.h.pc
    /\ tgt' = peer.h.tgt
    /\ res' = peer.h.res
    /\ io' = peer.h.io
    /\ client' = peer.h.client
    /\ mounts' = FetchedMounts(ContainerOf(peer.id))
    /\ ctrfs' = IF peer.separate THEN peer.ctrfs ELSE ctrfs
    /\ UNCHANGED <<hostfs, nreq, lastWrite, prev, registry, sockets, tasks,
                   emitted, updater, volume, body>>

NextConcurrent ==
    \/ \E path \in ConcPaths : Request("get", path, NoText)
    \/ \E path \in ConcPaths, content \in ConcTexts :
         Request("write", path, content)
    \/ Switch
    \/ FetchContainer
    \/ HostGetStep
    \/ ExecGetStep
    \/ HostWriteStep
    \/ ExecWriteStep

SpecConcurrent == InitConcurrent /\ [][NextConcurrent]_vars

----------------------------------------------------------------------------
(* The runtime client of each call: the three handlers and                   *)
(* _get_host_used_ports (src/app/routers/system.py, lines 276-298)           *)

\* `client = get_docker_client()` inside the try of _get_host_used_ports
PortsAcquire ==
    /\ pc = "idle"
    /\ req' = [kind |-> "ports", path |-> <<>>, content |-> NoText]
    /\ nreq' = nreq + 1
    /\ pc' = "ports"
    /\ client' = "open"
    /\ io' = <<>>
    /\ UNCHANGED <<mounts, hostfs, ctrfs, tgt, res, lastWrite, others>>

\* `containers = client.containers.list(all=True)`, the loop over the port
\* bindings and `client.close()`, all inside `try: ... except Exception: pass`:
\* when the list call raises, the close is skipped
PortsScan ==
    /\ pc = "ports"
    /\ \E raised \in BOOLEAN :
         /\ io' = Append(io, EvOut("api", "list_containers", <<>>,
                                   IF raised THEN "APIError" ELSE ""))
         /\ client' = IF raised THEN client ELSE "closed"
    /\ res' = BodyResp("Ports", <<>>)
    /\ pc' = "done"
    /\ UNCHANGED <<mounts, hostfs, ctrfs, req, tgt, nreq, lastWrite, others>>

NextClients ==
    \/ \E kind \in Kinds, path \in Paths, content \in Texts \cup {NoText} :
         Request(kind, path, content)
    \/ FetchContainer
    \/ HostGetStep
    \/ ExecGetStep
    \/ HostWriteStep
    \/ ExecWriteStep
    \/ HostDownloadStep
    \/ ArchiveStep
    \/ PortsAcquire
    \/ PortsScan

\* one call of a handler or of the port scan
SpecClients == Init /\ [][NextClients]_vars

----------------------------------------------------------------------------
(* The listener registry and the broadcast of runtime events                 *)
(* (src/app/services/docker_monitor.py, src/app/routers/websockets.py).      *)
(* The coroutines run on one event loop: a coroutine runs until it awaits,   *)
(* and the awaits that matter are `await connection.send_json(message)` of a *)
(* broadcast and `await websocket.receive_text()` of a connection handler.   *)

MaxSockets == 2     \* websockets that connect to /ws/events
MaxEvents == 2      \* events the runtime emits

Sockets == 1..MaxSockets

\* the default of IGNORED_EVENTS: exec_create, exec_start, exec_die
IGNORED_EVENTS ==
    { <<"e", "x", "e", "c", "_", "c", "r", "e", "a", "t", "e">>,
      <<"e", "x", "e", "c", "_", "s", "t", "a", "r", "t">>,
      <<"e", "x", "e", "c", "_", "d", "i", "e">> }

\* the actions of the events emitted: start, and "exec_start: sh" (the action
\* of an exec_start event carries the command)
EventActions ==
    { <<"s", "t", "a", "r", "t">>,
      <<"e", "x", "e", "c", "_", "s", "t", "a", "r", "t", ":", " ", "s", "h">> }

\* `any(action.startswith(ignored) for ignored in IGNORED_EVENTS)`
Ignored(action) == \E ignored \in IGNORED_EVENTS : StartsWith(action, ignored)

\* the keys in the key store, and the api_key parameters a client may pass
\* ("" when the parameter is missing)
KeyStore == {"k1"}
ApiKeys == {"", "k1", "k2"}

KeyAcceptedIfGiven(api_key) == api_key # ""

\* `if not api_key` ... `if not key_record`: the connection goes on
KeyAccepted(api_key) == api_key # "" /\ api_key \in KeyStore

\* `websocket in self.active_connections`
Contains(list, w) == \E i \in 1..Len(list) : list[i] = w

\* list.remove(w) on a list that holds w: without its first occurrence
Remove(list, w) ==
    LET i == CHOOSE j \in 1..Len(list) :
                 list[j] = w /\ \A k \in 1..(j - 1) : list[k] # w
    IN  SubSeq(list, 1, i - 1) \o SubSeq(list, i + 1, Len(list))

DisconnectUnguarded(list, w) ==
    IF Contains(list, w) THEN [raised |-> FALSE, list |-> Remove(list, w)]
    ELSE [raised |-> TRUE, list |-> list]

\* ConnectionManager.disconnect: the list afterwards, and whether list.remove
\* raised ValueError
Disconnect(list, w) ==
    IF Contains(list, w) THEN [raised |-> FALSE, list |-> Remove(list, w)]
    ELSE [raised |-> FALSE, list |-> list]

\* a websocket nobody has connected yet
NewSocket ==
    [state |-> "new", api_key |-> "", stalled |-> FALSE, received |-> <<>>,
     waiting |-> <<>>]

InitBroadcast ==
    /\ mounts = <<>>
    /\ hostfs = <<>>
    /\ ctrfs = <<>>
    /\ req = HandlerIdle.req
    /\ pc = "idle"
    /\ tgt = NoTarget
    /\ res = NoResp
    /\ io = <<>>
    /\ client = "none"
    /\ nreq = 0
    /\ lastWrite = <<>>
    /\ prev = <<>>
    /\ peer = <<>>
    /\ registry = <<>>
    /\ sockets = [w \in Sockets |-> NewSocket]
    /\ tasks = <<>>
    /\ emitted = <<>>
    /\ updater = <<>>
    /\ volume = <<>>
    /\ body = <<>>

\* websocket_events up to its loop: accept, the key check, and
\* `manager.active_connections.append(websocket)`; stalled tells whether the
\* client stops reading, so that a send to it never returns
Connect(w, api_key, stalled) ==
    /\ sockets[w].state = "new"
    /\ IF KeyAccepted(api_key)
       THEN /\ registry' = Append(registry, w)
            /\ sockets' = [sockets EXCEPT ![w].state = "listening",
                                          ![w].api_key = api_key,
                                          ![w].stalled = stalled]
       ELSE /\ ~stalled
            /\ sockets' = [sockets EXCEPT ![w].state = "closed",
                                          ![w].api_key = api_key]
            /\ UNCHANGED registry
    /\ UNCHANGED <<bridge, prev, peer, tasks, emitted, updater, volume, body>>

\* `await websocket.receive_text()` raises WebSocketDisconnect or another
\* exception: `manager.disconnect(websocket)` and the handler returns
ReceiveRaises(w) ==
    /\ sockets[w].state = "listening"
    /\ registry' = Disconnect(registry, w).list
    /\ sockets' = [sockets EXCEPT ![w].state = "ended"]
    /\ UNCHANGED <<bridge, prev, peer, tasks, emitted, updater, volume, body>>

\* a broadcast the listener thread has handed to the event loop
Scheduled(event) ==
    [event |-> event, state |-> "scheduled", snapshot |-> <<>>, i |-> 0,
     sent |-> <<>>]

\* docker_event_listener: one event of `for event in events`
Emit(action) ==
    /\ Len(emitted) < MaxEvents
    /\ emitted' = Append(emitted, action)
    /\ tasks' = IF Ignored(action) THEN tasks
                ELSE Append(tasks, Scheduled(Len(emitted) + 1))
    /\ UNCHANGED <<bridge, prev, peer, registry, sockets, updater, volume, body>>

\* the broadcast t goes on to the i-th connection of its copy of the list:
\* it calls send_json and awaits, or the loop is over
Advance(ts, ss, t, i) ==
    IF i > Len(ts[t].snapshot)
    THEN [tasks |-> [ts EXCEPT ![t].state = "done", ![t].i = i],
          sockets |-> ss]
    ELSE [tasks |-> [ts EXCEPT ![t].state = "awaiting", ![t].i = i],
          sockets |-> [ss EXCEPT ![ts[t].snapshot[i]].waiting = Append(@, t)]]

\* the event loop starts the oldest scheduled broadcast:
\* `for connection in list(self.active_connections)` and the first send_json
TaskStart(t) ==
    /\ t \in DOMAIN tasks
    /\ tasks[t].state = "scheduled"
    /\ \A u \in 1..(t - 1) : tasks[u].state # "scheduled"
    /\ LET a == Advance([tasks EXCEPT ![t].snapshot = registry], sockets, t, 1)
       IN  tasks' = a.tasks /\ sockets' = a.sockets
    /\ UNCHANGED <<bridge, prev, peer, registry, emitted, updater, volume, body>>

\* `await connection.send_json(message)` of broadcast t returns (ok) or raises:
\* the frames of one connection go out in the order of the calls
SendReturns(t, ok) ==
    /\ t \in DOMAIN tasks
    /\ tasks[t].state = "awaiting"
    /\ LET w == tasks[t].snapshot[tasks[t].i]
           d == Disconnect(registry, w)
           ss == [sockets EXCEPT
                    ![w].waiting = Tail(@),
                    ![w].received = IF ok THEN Append(@, tasks[t].event) ELSE @]
           ts == [tasks EXCEPT ![t].sent = Append(@, IF ok THEN "ok" ELSE "failed")]
       IN  /\ Head(sockets[w].waiting) = t
           /\ ~sockets[w].stalled
           /\ IF ok
              THEN /\ LET a == Advance(ts, ss, t, tasks[t].i + 1)
                      IN  tasks' = a.tasks /\ sockets' = a.sockets
                   /\ UNCHANGED registry
              ELSE IF d.raised
              THEN /\ tasks' = [ts EXCEPT ![t].state = "aborted"]
                   /\ sockets' = ss
                   /\ UNCHANGED registry
              ELSE /\ LET a == Advance(ts, ss, t, tasks[t].i + 1)
                      IN  tasks' = a.tasks /\ sockets' = a.sockets
                   /\ registry' = d.list
    /\ UNCHANGED <<bridge, prev, peer, emitted, updater, volume, body>>

NextBroadcast ==
    \/ \E w \in Sockets, api_key \in ApiKeys, stalled \in BOOLEAN :
         Connect(w, api_key, stalled)
    \/ \E w \in Sockets : ReceiveRaises(w)
    \/ \E action \in EventActions : Emit(action)
    \/ \E t \in 1..MaxEvents : TaskStart(t)
    \/ \E t \in 1..MaxEvents, ok \in BOOLEAN : SendReturns(t, ok)

SpecBroadcast == InitBroadcast /\ [][NextBroadcast]_vars

\* the event loop runs every coroutine that can run
SpecBroadcastFair == SpecBroadcast /\ WF_vars(NextBroadcast)

----------------------------------------------------------------------------
(* The update checker (src/app/services/git_updater.py): git_auto_updater    *)
(* and _get_mirror_urls                                                      *)

MaxIterations == 2      \* iterations of the polling loop

\* s.replace(old, new)
RECURSIVE Replace(_, _, _)
Replace(s, old, new) ==
    LET i == Find(s, old)
    IN  IF i = 0 THEN s
        ELSE SubSeq(s, 1, i - 1) \o new
             \o Replace(Drop(s, i + Len(old) - 1), old, new)

GitHub == <<"g", "i", "t", "h", "u", "b", ".", "c", "o", "m">>
GitHubFast == <<"g", "i", "t", "h", "u", "b", "f", "a", "s", "t", ".", "c", "o", "m">>

\* _get_mirror_urls: the primary URL, then the githubfast.com mirror when the
\* primary URL contains github.com
MirrorUrls(primary_url) ==
    IF Find(primary_url, GitHub) # 0
    THEN << primary_url, Replace(primary_url, GitHub, GitHubFast) >>
    ELSE << primary_url >>

\* GIT_REPO_URL: unset, github.com/r, and git.io/r
RepoUrls ==
    { <<>>, GitHub \o <<"/", "r">>, <<"g", "i", "t", ".", "i", "o", "/", "r">> }

Commits == {"c1", "c2"}

ExitsOnInstallError(stage) == IF stage = "install" THEN "exited" ELSE "sleep"

\* where the thread goes on after an exception raised at a stage of an
\* iteration: the except clauses of the loop all fall through to time.sleep
Contained(stage) == "sleep"

\* `if local_commit != remote_commit`
FoundUpdates(local_commit, remote_commit) == local_commit # remote_commit

InitUpdater ==
    /\ mounts = <<>>
    /\ hostfs = <<>>
    /\ ctrfs = <<>>
    /\ req = HandlerIdle.req
    /\ pc = "idle"
    /\ tgt = NoTarget
    /\ res = NoResp
    /\ io = <<>>
    /\ client = "none"
    /\ nreq = 0
    /\ lastWrite = <<>>
    /\ prev = <<>>
    /\ peer = <<>>
    /\ registry = <<>>
    /\ sockets = <<>>
    /\ tasks = <<>>
    /\ emitted = <<>>
    /\ \E auto \in BOOLEAN, url \in RepoUrls, head \in Commits :
         updater = [GIT_AUTO_UPDATE |-> auto, GIT_REPO_URL |-> url,
                    pc |-> "start", entered |-> FALSE, iteration |-> 0,
                    base_urls |-> <<>>, i |-> 0, fetch_success |-> FALSE,
                    tried |-> <<>>, local |-> head, remote |-> head,
                    resets |-> <<>>, slept |-> 0]
    /\ volume = <<>>
    /\ body = <<>>

\* `if not GIT_AUTO_UPDATE or not GIT_REPO_URL: return`
UpdaterStart ==
    /\ updater # <<>>
    /\ updater.pc = "start"
    /\ updater' = [updater EXCEPT !.pc =
                      IF ~updater.GIT_AUTO_UPDATE \/ updater.GIT_REPO_URL = <<>>
                      THEN "exited" ELSE "init"]
    /\ UNCHANGED <<bridge, prev, peer, registry, sockets, tasks, emitted, volume,
                   body>>

\* the initialisation of the repository (lines 61-117): it succeeds, or its
\* outer except logs a fatal error and returns
InitRepo ==
    /\ updater # <<>>
    /\ updater.pc = "init"
    /\ \E ok \in BOOLEAN :
         updater' = IF ok THEN [updater EXCEPT !.pc = "top", !.entered = TRUE]
                    ELSE [updater EXCEPT !.pc = "exited"]
    /\ UNCHANGED <<bridge, prev, peer, registry, sockets, tasks, emitted, volume,
                   body>>

\* the head of an iteration: `base_urls = _get_mirror_urls(GIT_REPO_URL)`,
\* `fetch_success = False`
LoopTop ==
    /\ updater # <<>>
    /\ updater.pc = "top"
    /\ updater' = [updater EXCEPT
                     !.pc = "fetch",
                     !.iteration = @ + 1,
                     !.base_urls = MirrorUrls(updater.GIT_REPO_URL),
                     !.i = 1,
                     !.fetch_success = FALSE,
                     !.tried = <<>>]
    /\ UNCHANGED <<bridge, prev, peer, registry, sockets, tasks, emitted, volume,
                   body>>

\* one turn of `for base_url in base_urls`: set the remote URL and fetch; on
\* success break, on an exception go on with the next URL
Fetch ==
    /\ updater # <<>>
    /\ updater.pc = "fetch"
    /\ IF updater.i > Len(updater.base_urls)
       THEN updater' = [updater EXCEPT !.pc = "check"]
       ELSE \E ok \in BOOLEAN, remote \in Commits :
              updater' = [updater EXCEPT
                  !.tried = Append(@, [url |-> updater.base_urls[updater.i],
                                       ok |-> ok]),
                  !.fetch_success = ok,
                  !.remote = IF ok THEN remote ELSE @,
                  !.i = @ + 1,
                  !.pc = IF ok THEN "check" ELSE "fetch"]
    /\ UNCHANGED <<bridge, prev, peer, registry, sockets, tasks, emitted, volume,
                   body>>

\* after the for loop: nothing fetched, or the comparison of the commits and
\* the hard reset; raised names the call that raises, "" when none does
CheckAndReset ==
    /\ updater # <<>>
    /\ updater.pc = "check"
    /\ \E raised \in {"", "commit", "reset"}, requirements_changed \in BOOLEAN :
         IF ~updater.fetch_success
         THEN updater' = [updater EXCEPT !.pc = "sleep"]
         ELSE IF raised = "commit"
         THEN updater' = [updater EXCEPT !.pc = Contained("commit")]
         ELSE IF ~FoundUpdates(updater.local, updater.remote)
         THEN updater' = [updater EXCEPT !.pc = "sleep"]
         ELSE IF raised = "reset"
         THEN updater' = [updater EXCEPT !.pc = Contained("reset")]
         ELSE updater' = [updater EXCEPT
                  !.resets = Append(@, [iteration |-> updater.iteration,
                                        fetch_success |-> updater.fetch_success,
                                        from |-> updater.local,
                                        to |-> updater.remote]),
                  !.local = updater.remote,
                  !.pc = IF requirements_changed THEN "install" ELSE "sleep"]
    /\ UNCHANGED <<bridge, prev, peer, registry, sockets, tasks, emitted, volume,
                   body>>

\* `subprocess.check_call([... "pip", "install", ...])`: it returns, raises
\* CalledProcessError (caught next to it) or raises another exception (caught
\* by the except of the update block)
Install ==
    /\ updater # <<>>
    /\ updater.pc = "install"
    /\ \E outcome \in {"ok", "CalledProcessError", "OSError"} :
         updater' = [updater EXCEPT !.pc =
                        IF outcome = "ok" THEN "sleep" ELSE Contained("install")]
    /\ UNCHANGED <<bridge, prev, peer, registry, sockets, tasks, emitted, volume,
                   body>>

\* `time.sleep(GIT_CHECK_INTERVAL)`, then the next iteration
Sleep ==
    /\ updater # <<>>
    /\ updater.pc = "sleep"
    /\ updater.iteration < MaxIterations
    /\ updater' = [updater EXCEPT !.pc = "top", !.slept = @ + 1]
    /\ UNCHANGED <<bridge, prev, peer, registry, sockets, tasks, emitted, volume,
                   body>>

NextUpdater ==
    \/ UpdaterStart
    \/ InitRepo
    \/ LoopTop
    \/ Fetch
    \/ CheckAndReset
    \/ Install
    \/ Sleep

SpecUpdater == InitUpdater /\ [][NextUpdater]_vars

----------------------------------------------------------------------------
(* get_volume_files (src/app/routers/volumes.py, lines 83-145)               *)

\* os.path.abspath of an absolute path: os.path.normpath
Abspath(p) == IF FsKey(p) = <<>> THEN <<"/">> ELSE AbsPath(FsKey(p))

\* volume.attrs["Mountpoint"]: none, /v/d and /v/d/
Mountpoints ==
    { <<>>, <<"/", "v", "/", "d">>, <<"/", "v", "/", "d", "/">> }

\* the names of a sub-path: empty, d, .. and the name d..
VolumeSegs == { <<>>, <<"d">>, <<".", ".">>, <<"d", ".", ".">> }

\* the sub-paths requested: the default "", and paths of up to MaxSegs names
\* with a leading slash
VolumePaths == PathsOver(VolumeSegs, MaxSegs)

\* base_path, target_path, abs_base and abs_target of get_volume_files
VolumeTarget(mountpoint, path) ==
    LET clean_mountpoint == LStrip(mountpoint)
        base_path == PathJoin(HOST_FILESYSTEM_ROOT, clean_mountpoint)
        clean_path == LStrip(path)
        target_path == PathJoin(base_path, clean_path)
    IN  [base_path |-> base_path, target_path |-> target_path,
         abs_base |-> Abspath(base_path), abs_target |-> Abspath(target_path)]

\* `if not abs_target.startswith(abs_base)`
VolumeTraversal(abs_base, abs_target) == ~StartsWith(abs_target, abs_base)

VolumeDetail(kind) ==
    CASE kind = "NoMountpoint" ->
             "Volume mountpoint not found or not accessible directly"
      [] kind = "VolumeTraversal" -> "Access denied: Path traversal detected"
      [] kind = "VolumeNotFound" -> "Volume not found"
      [] kind = "VolumePathNotFound" -> "Path not found"
      [] kind = "VolumeNotADirectory" -> "Path is not a directory"
      [] OTHER -> ""

VolumeResp(kind, status) ==
    [Resp(kind, status) EXCEPT !.detail = VolumeDetail(kind)]

InitVolumes ==
    /\ mounts = <<>>
    /\ hostfs = <<>>
    /\ ctrfs = <<>>
    /\ req = HandlerIdle.req
    /\ pc = "idle"
    /\ tgt = NoTarget
    /\ res = NoResp
    /\ io = <<>>
    /\ client = "none"
    /\ nreq = 0
    /\ lastWrite = <<>>
    /\ prev = <<>>
    /\ peer = <<>>
    /\ registry = <<>>
    /\ sockets = <<>>
    /\ tasks = <<>>
    /\ emitted = <<>>
    /\ updater = <<>>
    /\ volume \in { [Mountpoint |-> m] : m \in Mountpoints }
    /\ body = <<>>

\* a request for the files of the volume: `client = get_docker_client()`
VolumeRequest(path) ==
    /\ pc = "idle"
    /\ volume # <<>>
    /\ req' = [kind |-> "volume", path |-> path, content |-> NoText]
    /\ nreq' = nreq + 1
    /\ pc' = "volume"
    /\ client' = "open"
    /\ io' = <<>>
    /\ UNCHANGED <<mounts, hostfs, ctrfs, tgt, res, lastWrite, others>>

\* the body of get_volume_files
VolumeFilesStep ==
    /\ pc = "volume"
    /\ \E found \in BOOLEAN :
         LET t == VolumeTarget(volume.Mountpoint, req.path)
             x0 == <<EvOut("api", "get_volume", <<>>,
                           IF found THEN "" ELSE "NotFound")>>
             x1 == x0 \o <<Ev("host", "exists", t.abs_target)>>
             x2 == x1 \o <<Ev("host", "isdir", t.abs_target)>>
             x3 == x2 \o <<Ev("host", "scandir", t.abs_target)>>
         IN  IF ~found
             THEN /\ Done(VolumeResp("VolumeNotFound", 404))
                  /\ io' = x0
                  /\ UNCHANGED hostfs
             ELSE IF volume.Mountpoint = <<>>
             THEN /\ Done(VolumeResp("NoMountpoint", 400))
                  /\ io' = x0
                  /\ UNCHANGED hostfs
             ELSE IF VolumeTraversal(t.abs_base, t.abs_target)
             THEN /\ Done(VolumeResp("VolumeTraversal", 403))
                  /\ io' = x0
                  /\ UNCHANGED hostfs
             ELSE \E e \in Possible(hostfs, FsKey(t.abs_target), {RootKey}) :
                    /\ hostfs' = Observe(hostfs, FsKey(t.abs_target), e)
                    /\ IF ~Exists(t.abs_target, e)
                       THEN Done(VolumeResp("VolumePathNotFound", 404)) /\ io' = x1
                       ELSE IF ~IsDir(t.abs_target, e)
                       THEN Done(VolumeResp("VolumeNotADirectory", 400)) /\ io' = x2
                       ELSE Done(BodyResp("Listing", <<>>)) /\ io' = x3
    /\ UNCHANGED <<mounts, ctrfs, req, tgt, nreq, lastWrite, others>>

NextVolumes ==
    \/ \E path \in VolumePaths : VolumeRequest(path)
    \/ VolumeFilesStep

SpecVolumes == InitVolumes /\ [][NextVolumes]_vars

----------------------------------------------------------------------------
(* the body of the StreamingResponse of download_container_file              *)
(* (src/app/routers/containers.py, lines 215-236)                            *)

\* the chunks the generator of container.get_archive yields at most
MaxChunks == 2

\* The framework iterates `stream` after the handler has returned: one read
\* of the generator returned by get_archive.  The read is recorded with the
\* state of the client at that moment; a read from a closed client yields the
\* chunk or raises, and a read that raised ends the body.
StreamRead ==
    /\ pc = "done"
    /\ res.kind = "Archive"
    /\ Len(body) < MaxChunks
    /\ \A i \in DOMAIN body : body[i].delivered
    /\ \E delivered \in (IF client = "open" THEN {TRUE} ELSE BOOLEAN) :
         body' = Append(body, [client |-> client, delivered |-> delivered])
    /\ UNCHANGED <<bridge, prev, peer, registry, sockets, tasks, emitted,
                   updater, volume>>

NextStream ==
    \/ \E path \in Paths : Request("download", path, NoText)
    \/ FetchContainer
    \/ HostDownloadStep
    \/ ArchiveStep
    \/ StreamRead

\* one download and the delivery of its body
SpecStream == Init /\ [][NextStream]_vars

----------------------------------------------------------------------------
(* Claims *)

\* the mount of index i matches the path as the resolver's contract words it:
\* its stripped destination equals the stripped path or is followed in it by "/"
DestCovers(i, path) ==
    LET d == RStrip(mounts[i].Destination)
        p == RStrip(path)
    IN  \/ p = d
        \/ Len(p) > Len(d) /\ SubSeq(p, 1, Len(d)) = d /\ p[Len(d) + 1] = "/"

Covering(path) == { i \in 1..Len(mounts) : DestCovers(i, path) }

\* C1: in get, download and write, mount resolution returns none iff no
\* mount's stripped destination equals the stripped path or is followed in it
\* by "/", and otherwise returns a matching mount whose stripped destination is
\* longest among the matching mounts; a string-prefix-only mount never matches.
C1_LongestMatchingMount ==
    pc = "resolved" =>
        /\ ~tgt.matched <=> Covering(req.path) = {}
        /\ tgt.matched =>
             \E i \in Covering(req.path) :
                /\ tgt.mount = <<mounts[i]>>
                /\ \A j \in Covering(req.path) :
                      Len(RStrip(mounts[j].Destination))
                          <= Len(RStrip(mounts[i].Destination))

\* two mounts match, the second one is more specific and is the one selected,
\* and the request is a write
C1_Witness ==
    /\ pc = "resolved" /\ req.kind = "write"
    /\ Len(mounts) = 2
    /\ Covering(req.path) = {1, 2}
    /\ Len(RStrip(mounts[2].Destination)) > Len(RStrip(mounts[1].Destination))
    /\ tgt.mount = <<mounts[2]>>

\* a ".." between slashes or string ends, found character by character
DotDotSegment(rel) ==
    \E i \in 1..(Len(rel) - 1) :
        /\ rel[i] = "." /\ rel[i + 1] = "."
        /\ i = 1 \/ rel[i - 1] = "/"
        /\ i + 1 = Len(rel) \/ rel[i + 2] = "/"

\* C2: whenever the residual relative path of a mount-matched request has a
\* segment equal to "..", get, download and write fail with the traversal error
\* before any host filesystem call; a segment that only contains ".." is not
\* rejected as a traversal.
C2_TraversalRejectedBeforeHostAccess ==
    /\ tgt.matched /\ DotDotSegment(tgt.relative_path) =>
         /\ HostEvents(io) = {}
         /\ pc \in {"host", "done"}
         /\ pc = "done" => res.kind = "Traversal" /\ res.status = 403
    /\ tgt.matched /\ ~DotDotSegment(tgt.relative_path) => res.kind # "Traversal"

C2_Witness ==
    /\ pc = "done" /\ req.kind = "write"
    /\ tgt.matched /\ DotDotSegment(tgt.relative_path)
    /\ res.kind = "Traversal"
    /\ hostfs = <<>>

UnderRoot(p) == IsPrefix(RootKey, FsKey(p))

\* C3: every host path that get, download or write tests, reads, scans or writes
\* lies under the host-filesystem root, and a request whose computed host path
\* would leave the root fails before any host filesystem call.
C3_HostAccessUnderRoot ==
    /\ \A i \in HostEvents(io) : UnderRoot(io[i].arg)
    /\ \A k \in DOMAIN hostfs : IsPrefix(RootKey, k)
    /\ tgt.matched /\ ~UnderRoot(tgt.final_path) =>
         /\ HostEvents(io) = {}
         /\ pc = "done" => res.status >= 400

\* a write whose final path would resolve above the root is refused untouched
C3_Witness ==
    /\ pc = "done" /\ req.kind = "write"
    /\ tgt.matched /\ ~UnderRoot(tgt.final_path)
    /\ res.status = 403 /\ HostEvents(io) = {}

\* the first segment of an absolute-looking path is ".."
FirstSegmentDotDot(path) ==
    /\ Len(path) >= 3
    /\ path[1] = "/" /\ path[2] = "." /\ path[3] = "."
    /\ Len(path) = 3 \/ path[4] = "/"

\* C4: a request whose path has ".." as first segment (such as
\* "/../etc/passwd") is rejected with InvalidPath at input validation, before
\* mount resolution runs and before any in-container command is issued.
C4_DotDotFirstSegmentIsInvalidPath ==
    FirstSegmentDotDot(req.path) /\ pc # "idle" =>
        /\ pc = "done" /\ res.kind = "InvalidPath"
        /\ io = <<>> /\ tgt = NoTarget

\* what the path of a get names once the request is served: the host file
\* of the mounted branch, or the file the shell's word names in the container
GetEntry ==
    IF tgt.matched THEN hostfs[FsKey(tgt.final_path)]
    ELSE ctrfs[FsKey(ShWord(req.path))]

\* C5: every file content returned by get, through the host strategy or the
\* in-container strategy, is the content of a file of at most 1 MiB, also when
\* the in-container size determination fails or prints no number.
C5_ContentOnlyUpToLimit ==
    pc = "done" /\ req.kind = "get" /\ res.kind = "Content" =>
        FileSize(GetEntry) <= SizeLimit

\* the size of the file is known to the handler: always on the host, in the
\* container when `stat -c %s` exits 0 and prints a number
SizeKnown ==
    \/ tgt.matched /\ \E i \in HostEvents(io) : io[i].op = "getsize"
    \/ ~tgt.matched /\ \E i \in ExecEvents(io) :
                          io[i].op = "stat_size" /\ io[i].out = "size"

TextLength(text) == Len(text.chars) + text.fill

\* C6: for a text file whose size is known, get returns its content when the
\* size is exactly 1048576 bytes and fails with TooLarge when it is 1048577
\* bytes, on the host and in the container; only a failing read or runtime call
\* stands between a file of 1048576 bytes and its content.
C6_SizeBoundary ==
    pc = "done" /\ req.kind = "get" /\ SizeKnown =>
        /\ FileSize(GetEntry) = SizeLimit =>
             /\ res.kind \in {"Content", "ReadError", "ContainerNotFound"}
             /\ res.kind = "Content" =>
                  res.status = 200 /\ TextLength(res.content) = SizeLimit
        /\ FileSize(GetEntry) = SizeLimit + 1 =>
             res.kind = "TooLarge" /\ res.status = 400

\* a file of exactly 1048576 bytes is read in the container after its size was
\* printed
C6_Witness ==
    /\ pc = "done" /\ req.kind = "get" /\ ~tgt.matched /\ SizeKnown
    /\ FileSize(GetEntry) = SizeLimit
    /\ res.kind = "Content"

\* failures of the environment of a read-back: the container is gone or the
\* read itself fails
ReadBackFailed == res.kind \in {"ContainerNotFound", "ReadError"}

\* C7: a successful write of text to a mount-backed path followed by a get
\* of the same path returns exactly the written text.
C7_MountRoundTrip ==
    /\ pc = "done" /\ req.kind = "get" /\ lastWrite # <<>>
    /\ lastWrite[1].route = "mount" /\ ~ReadBackFailed
    => res.kind = "Content" /\ res.content = lastWrite[1].content

\* C8: for a path no mount matches that names a file in an existing directory
\* and a text of at most 1 MiB, a successful write followed by a get returns
\* exactly the written text; the uploaded archive has one entry named by the
\* basename of the path whose size is the UTF-8 byte length of the text.
C8_ArchiveRoundTrip ==
    /\ \A i \in UploadEvents(io) :
          /\ Len(io[i].tar) = 1
          /\ io[i].tar[1].name = Basename(req.path)
          /\ io[i].tar[1].size = FileSize(File(Encode(req.content)))
    /\ /\ pc = "done" /\ req.kind = "get" /\ lastWrite # <<>>
       /\ lastWrite[1].route = "exec" /\ ~ReadBackFailed
       /\ Basename(req.path) # <<>>
       /\ FileSize(File(Encode(lastWrite[1].content))) <= SizeLimit
       => res.kind = "Content" /\ res.content = lastWrite[1].content

\* the directory the archive is uploaded into is absent or not a directory
ActualParentMissing ==
    LET k == FsKey(Dirname(req.path))
    IN  k \in DOMAIN ctrfs /\ ctrfs[k].type # "dir"

\* C9: write checks the parent directory before it changes anything: on a
\* mounted path a missing host parent gives ParentDirectoryMissing and no file
\* is opened or written; on an unmounted path the test of the parent comes
\* before the upload, and a missing parent gives ParentDirectoryMissing, not
\* UploadFailed, with no upload attempted.
C9_ParentCheckedBeforeMutation ==
    pc = "done" /\ req.kind = "write" =>
        /\ res.kind = "ParentMissing" =>
             /\ res.status = 404
             /\ \A i \in 1..Len(io) : io[i].op \notin {"open_w", "write", "put_archive"}
        /\ \A i \in UploadEvents(io) :
             \E j \in 1..(i - 1) : io[j].op = "test_d" /\ io[j].out = "0"
        /\ ~tgt.matched /\ ActualParentMissing =>
             res.kind = "ParentMissing" /\ UploadEvents(io) = {}

\* C10: each get and each write uses one access strategy: when a mount
\* matches no command is run in the container and no archive is uploaded, also
\* when the host access fails; when none matches no host path is touched; a
\* successful write answers {status, message} on both routes.
C10_OneStrategy ==
    req.kind \in {"get", "write"} =>
        /\ tgt.matched => ExecEvents(io) = {} /\ UploadEvents(io) = {}
        /\ ~tgt.matched => HostEvents(io) = {}
        /\ pc = "done" /\ tgt.matched /\ res.status = 200 => HostEvents(io) # {}
        /\ pc = "done" /\ ~tgt.matched /\ res.status = 200 =>
             ExecEvents(io) # {} \/ UploadEvents(io) # {}
        /\ res.kind = "WriteOk" =>
             res.status = 200 /\ res.keys = {"status", "message"}

\* a write through a mount fails on the host and nothing was tried in the
\* container
C10_Witness ==
    /\ pc = "done" /\ req.kind = "write" /\ tgt.matched
    /\ res.kind = "WriteError"
    /\ HostEvents(io) # {} /\ ExecEvents(io) = {} /\ UploadEvents(io) = {}

\* the requested path is known to exist inside the container
ExistsInContainer ==
    /\ FsKey(req.path) \in DOMAIN ctrfs
    /\ Exists(req.path, ctrfs[FsKey(req.path)])

\* the listing commands failed on a path `test -d` accepted: a directory the
\* container's user may not read
ListingDenied ==
    /\ \E i \in ExecEvents(io) : io[i].op = "test_d" /\ io[i].out = "0"
    /\ \E i \in ExecEvents(io) : io[i].op = "ls" /\ io[i].out = "nonzero"

\* C11: get and download answer path-not-found only when the path exists
\* neither on the host nor inside the container: never for a path that exists
\* inside the container (a directory that exists but cannot be listed aside).
C11_NotFoundOnlyIfAbsentInContainer ==
    /\ pc = "done" /\ req.kind \in {"get", "download"}
    /\ res.kind \in {"HostPathNotFound", "NotFoundInContainer", "FileNotInContainer"}
    /\ ~ListingDenied
    => ~ExistsInContainer

\* the responses of the four failure causes, as the client sees them
Visible(kind, status) == <<status, Detail(kind)>>

ContainerMissing == { Visible("ContainerNotFound", 404) }

PathMissing ==
    { Visible("HostPathNotFound", 404), Visible("NotFoundInContainer", 404),
      Visible("FileNotInContainer", 404) }

NeitherFileNorDirectory == { Visible("NotADirectory", 400) }

TraversalDetected == { Visible("Traversal", 403) }

\* C12: container not found, path not found, neither file nor directory and
\* traversal detected are answered with pairwise different responses, and a
\* not-found raised by a runtime call made after the container was fetched is
\* never answered as container not found.
C12_FailureCausesDistinct ==
    /\ \A a, b \in {ContainerMissing, PathMissing, NeitherFileNorDirectory,
                    TraversalDetected} : a # b => a \cap b = {}
    /\ res.kind = "ContainerNotFound" =>
         /\ res.status = 404
         /\ \A i \in 1..Len(io) : io[i].op = "get_container"

\* the request's path is empty or does not start with "/"
NotAbsolute(path) == path = <<>> \/ path[1] # "/"

\* C13: get, download and write refuse an empty path or a path not starting
\* with "/" with InvalidPath before the runtime client is acquired, the
\* container fetched or the mounts resolved: no runtime or filesystem call is
\* made for such a request.
C13_InvalidPathBeforeClient ==
    /\ req.kind # "none" /\ NotAbsolute(req.path) =>
         /\ pc = "done"
         /\ res.kind = "InvalidPath" /\ res.status = 400
         /\ client = "none"
         /\ io = <<>> /\ tgt = NoTarget
         /\ hostfs = <<>> /\ ctrfs = <<>>
    /\ res.kind = "InvalidPath" => NotAbsolute(req.path)

\* a write to the relative path "../d" is refused untouched
C13_Witness ==
    /\ pc = "done" /\ req.kind = "write"
    /\ req.path = <<".", ".", "/", "d">>
    /\ res.kind = "InvalidPath" /\ client = "none" /\ io = <<>>

\* two paths name the same file: the same components, and both or neither
\* end with a slash (a path that ends with a slash names a directory only)
SameFile(a, b) == FsKey(a) = FsKey(b) /\ TrailingSlash(a) = TrailingSlash(b)

\* the relative path as the resolver's contract words it
ContractRelative(mount, path) ==
    LET d == RStrip(mount.Destination)
        p == RStrip(path)
    IN  IF p = d THEN <<>> ELSE LStrip(SubSeq(p, Len(d) + 1, Len(p)))

\* the host path as the mapper's contract words it
ContractHostPath(mount, relative_path) ==
    PathJoin(HOST_FILESYSTEM_ROOT, LStrip(PathJoin(mount.Source, relative_path)))

\* C14: for a mount-matched path the relative path is empty when the stripped
\* path equals the stripped destination and otherwise the path without the
\* destination prefix and leading "/", the host path is the root joined with
\* the leading-slash-stripped join of source and relative path, and get,
\* download and write compute the same host file for the same path.
C14_HostPathComposition ==
    pc = "resolved" /\ tgt.matched =>
        /\ tgt.relative_path = ContractRelative(tgt.mount[1], req.path)
        /\ SameFile(tgt.final_path,
                    ContractHostPath(tgt.mount[1], tgt.relative_path))
        /\ \A kind \in Kinds :
              SameFile(Target(kind, mounts, req.path).final_path, tgt.final_path)

\* what the resolved host path of a mount-matched request holds
HostEntry == hostfs[FsKey(tgt.final_path)]

HostEntryKnown == tgt.matched /\ FsKey(tgt.final_path) \in DOMAIN hostfs

TarName(path) == Basename(path) \o <<".", "t", "a", "r">>

\* C15: download of a mount-matched path that is a directory on the host is
\* refused with the cannot-download-a-directory error and returns neither a
\* file body nor an archive; a mount-matched existing regular file is returned
\* as a raw body named by the basename of the path; an unmatched path is
\* returned as an archive named <basename>.tar, or NotFound when it does not
\* exist in the container.
C15_DownloadCases ==
    pc = "done" /\ req.kind = "download" =>
        /\ HostEntryKnown /\ HostEntry.type = "dir" =>
             /\ res.kind = "IsADirectory" /\ res.status = 400
             /\ \A i \in 1..Len(io) : io[i].op # "get_archive"
        /\ HostEntryKnown /\ IsFile(tgt.final_path, HostEntry) =>
             /\ res.kind = "FileBody" /\ res.status = 200
             /\ res.name = Basename(req.path)
             /\ \A i \in 1..Len(io) : io[i].op # "get_archive"
        /\ ~tgt.matched /\ res.status = 200 =>
             /\ res.kind = "Archive" /\ res.name = TarName(req.path)
             /\ ExistsInContainer
        /\ ~tgt.matched /\ FsKey(req.path) \in DOMAIN ctrfs /\ ~ExistsInContainer =>
             res.kind = "FileNotInContainer" /\ res.status = 404
        /\ res.kind \in {"FileBody", "IsADirectory"} => tgt.matched

\* a download of a mounted directory is refused after the two host tests
C15_Witness ==
    /\ pc = "done" /\ req.kind = "download"
    /\ HostEntryKnown /\ HostEntry.type = "dir"
    /\ res.kind = "IsADirectory"

\* the calls of the stat loop and of ls -la that returned to the handler
StatLoopEvents == { i \in ExecEvents(io) : io[i].op = "stat_loop" /\ io[i].out # "NotFound" }
LsEvents == { i \in ExecEvents(io) : io[i].op = "ls" /\ io[i].out # "NotFound" }

\* the stat loop exited zero and printed something
PrimarySucceeded(i) == io[i].out = "0" /\ io[i].output # <<>>

CountLines(s) == Cardinality({ i \in 1..Len(s) : s[i] = "LF" })

\* C16: in the in-container prober, ls -la is run only after the stat loop
\* exited non-zero or printed nothing (and then it is run); when the stat loop
\* exits zero with output, ls -la is never run and the answer is made of the
\* stat loop's lines alone.
C16_FallbackOnlyAfterPrimaryFailed ==
    /\ \A j \in 1..Len(io) : io[j].op = "ls" =>
          \E i \in StatLoopEvents : i < j /\ ~PrimarySucceeded(i)
    /\ \A i \in StatLoopEvents :
          /\ PrimarySucceeded(i) =>
               /\ \A j \in 1..Len(io) : io[j].op # "ls"
               /\ pc = "done" => res.kind \in {"Listing", "ListingError"}
               /\ res.kind = "Listing" =>
                    Len(res.items) = CountLines(io[i].output)
          /\ ~PrimarySucceeded(i) /\ pc = "done" =>
               \E j \in 1..Len(io) : j > i /\ io[j].op = "ls"

\* the stat loop printed lines but exited non-zero, and the listing comes from
\* ls -la
C16_Witness ==
    /\ pc = "done" /\ res.kind = "Listing" /\ res.items # <<>>
    /\ \E i \in StatLoopEvents : io[i].out = "nonzero" /\ CountLines(io[i].output) > 0
    /\ LsEvents # {}

\* what the shell's word for the requested path holds in the container
ListedEntry == Lookup(ctrfs, FsKey(ShWord(req.path)))

NeitherDirNorFile ==
    \/ ShSyntaxError(req.path)
    \/ /\ ~IsDir(ShWord(req.path), ListedEntry)
       /\ ~IsFile(ShWord(req.path), ListedEntry)

Answered == pc = "done" /\ req.kind = "get" /\ res.kind # "ContainerNotFound"

FallbackListing ==
    /\ Answered /\ ListedEntry.type = "dir" /\ ~ShSyntaxError(req.path)
    /\ \E j \in LsEvents : io[j].out = "0"

ListedNames == ChildNames(ctrfs, FsKey(ShWord(req.path)))

HasSpace(name) == \E i \in 1..Len(name) : name[i] = " "

\* C18: in the fallback parser every listed file whose name has embedded
\* whitespace, runs of several spaces included, yields exactly one entry, and
\* its name is the file's name.
C18_FallbackKeepsNamesWithSpaces ==
    FallbackListing /\ res.kind = "Listing" =>
        /\ \A n \in 1..Len(ListedNames) : HasSpace(ListedNames[n]) =>
              Cardinality({ i \in 1..Len(res.items) :
                              res.items[i].name = ListedNames[n] }) = 1
        /\ Len(res.items) = Len(ListedNames)

\* C19: once ls -la has exited zero the fallback parser never fails the
\* listing: the total line and the lines of "." and ".." are skipped and every
\* other line yields one entry, of type directory iff the permissions start
\* with "d", is_symlink iff they start with "l", modified 0 and no " -> target"
\* in the name; a regular file is listed with type file.
C19_FallbackNeverFails ==
    FallbackListing =>
        /\ res.kind = "Listing"
        /\ Len(res.items) = Len(ListedNames)
        /\ \A i \in 1..Len(res.items) :
              LET e == ctrfs[Append(FsKey(ShWord(req.path)), ListedNames[i])]
                  it == res.items[i]
              IN  /\ it.type = "directory" <=> e.type = "dir"
                  /\ it.is_symlink <=> e.type = "link"
                  /\ it.modified = 0
                  /\ it.name \notin {<<".">>, <<".", ".">>}
                  /\ Find(it.name, <<" ", "-", ">", " ">>) = 0

\* the listing of a directory came from the stat loop
PrimaryListing ==
    /\ Answered /\ ListedEntry.type = "dir" /\ ~ShSyntaxError(req.path)
    /\ \E i \in StatLoopEvents : PrimarySucceeded(i)

GlobbedNames == ShownNames(ListedNames, FALSE)

\* C20: in the primary strategy every child the stat loop prints a line for
\* yields exactly one entry with the child's name, size and modification time,
\* is_mounted iff directory + "/" + name, trailing slashes aside, is a mount
\* destination; no file name corrupts an entry or fails the listing.
C20_PrimaryOneEntryPerChild ==
    PrimaryListing =>
        /\ res.kind = "Listing"
        /\ Len(res.items) = Len(GlobbedNames)
        /\ \A i \in 1..Len(res.items) :
              LET e == ctrfs[Append(FsKey(ShWord(req.path)), GlobbedNames[i])]
                  it == res.items[i]
              IN  /\ it.name = GlobbedNames[i]
                  /\ it.size = StatSize(e)
                  /\ it.modified = StatMTime(e)
                  /\ it.is_mounted <=>
                       \E m \in 1..Len(mounts) :
                          RStrip(mounts[m].Destination)
                            = RStrip(req.path) \o <<"/">> \o GlobbedNames[i]

\* the calls that change a filesystem
MutatingOps == {"open_w", "write", "put_archive"}

\* what was seen of a filesystem earlier is what is seen of it now
SameWhereSeen(before, now) ==
    \A k \in DOMAIN before : k \in DOMAIN now /\ now[k] = before[k]

\* the runtime and the host answered the calls of this request as they
\* answered the calls of the previous one
SameAnswers == prev # <<>> /\ io = prev[1].io

\* C21: a get repeated on the same path, the host and the runtime answering
\* each call as before, returns the response it returned before; a get or a
\* download makes no call that writes, leaves every observed entry of the host
\* and of the container as it was, and leaves the mounts and the record of
\* writes alone.
C21_GetIdempotentAndReadOnly ==
    /\ pc = "done" /\ req.kind = "get" /\ SameAnswers => res = prev[1].res
    /\ \A i \in 1..Len(io) : io[i].op \notin MutatingOps
    /\ lastWrite = <<>>
    /\ prev # <<>> =>
         /\ mounts = prev[1].mounts
         /\ SameWhereSeen(prev[1].hostfs, hostfs)
         /\ SameWhereSeen(prev[1].ctrfs, ctrfs)

\* a file's content returned twice
C21_Witness ==
    /\ pc = "done" /\ req.kind = "get" /\ SameAnswers
    /\ res.kind = "Content"
    /\ prev[1].res = res

\* the mount resolution of the get in progress, from the mounts of its
\* container
AloneTarget == Target("get", peer.attrs[Here], req.path)

\* the entry a get looks at, and the filesystem that holds it
GetKey ==
    IF AloneTarget.matched THEN FsKey(AloneTarget.final_path)
    ELSE FsKey(ShWord(req.path))
GetFs == IF AloneTarget.matched THEN "host" ELSE Here

\* what an entry held before the two requests
StartEntries(seen, fs, k) ==
    IF k \in DOMAIN seen
    THEN IF seen[k] = Unknown THEN {Absent} \cup OldFiles ELSE {seen[k]}
    ELSE IF k \in DOMAIN fs THEN {fs[k]}
    ELSE {}

\* the responses the get in progress can return when it runs alone
AloneGet ==
    IF AloneTarget.matched
    THEN { HostGet(AloneTarget, e, oserr).res :
             e \in StartEntries(peer.host0, hostfs, GetKey), oserr \in BOOLEAN }
    ELSE { ExecGet(req.path, e, st, catfail, ls).res :
             e \in StartEntries(peer.ctr0, ctrfs, GetKey),
             st \in {"size", "fail", "garbage"}, catfail \in BOOLEAN,
             ls \in {"primary", "fallback", "denied"} }

\* a get has looked at the filesystem and answered
GetAnswered ==
    /\ pc = "done" /\ req.kind = "get"
    /\ res.kind \notin {"InvalidPath", "ContainerNotFound", "Traversal"}
    /\ peer.h.req.kind # "none"

Related(a, b) == IsPrefix(a, b) \/ IsPrefix(b, a)

\* the other request has written nothing at, above or below the entry the get
\* looks at
Untouched ==
    \A w \in peer.written : w[1] = GetFs => ~Related(w[2], GetKey)

C23_ClientReleased ==
    pc = "done" =>
        /\ client # "open"
        /\ client = "none" => res.kind = "InvalidPath"

\* the broadcasts that have left their loop
Finished == { t \in DOMAIN tasks : tasks[t].state = "done" }

\* the registry changed while broadcast t was in its loop
ChangedDuring(t) ==
    \E j \in 1..Len(tasks[t].snapshot) :
        ~Contains(registry, tasks[t].snapshot[j]) /\ tasks[t].sent[j] = "ok"

\* C24: no broadcast is aborted, whatever is added to or removed from the
\* registry meanwhile; a broadcast that has left its loop has called send_json
\* once for every connection registered when it started; a connection whose
\* send raised is not in the registry, and a connection whose send returned
\* has been sent the message.
C24_BroadcastToleratesFailures ==
    /\ \A t \in DOMAIN tasks : tasks[t].state # "aborted"
    /\ \A t \in Finished :
         /\ Len(tasks[t].sent) = Len(tasks[t].snapshot)
         /\ \A j \in 1..Len(tasks[t].snapshot) :
              LET w == tasks[t].snapshot[j]
              IN  /\ tasks[t].sent[j] = "failed" => ~Contains(registry, w)
                  /\ tasks[t].sent[j] = "ok" =>
                       Contains(sockets[w].received, tasks[t].event)

\* a broadcast whose first send raised for a connection that had already been
\* removed, and whose second send returned
C24_Witness ==
    \E t \in Finished :
        /\ Len(tasks[t].snapshot) = 2
        /\ tasks[t].sent = <<"failed", "ok">>
        /\ sockets[tasks[t].snapshot[1]].state = "ended"
        /\ Contains(registry, tasks[t].snapshot[2])

\* the broadcasts that have copied the list
Started == { t \in DOMAIN tasks : tasks[t].state # "scheduled" }

\* broadcast t has called send_json for every connection of its copy whose
\* client reads
ReachedAll(t) ==
    \A j \in 1..Len(tasks[t].snapshot) :
        ~sockets[tasks[t].snapshot[j]].stalled => j <= Len(tasks[t].sent)

\* C25: a broadcast that has started eventually completes the send to every
\* connection registered when it started whose client reads, also when the
\* send to another connection never returns.
C25_SlowListenerBlocksNobody ==
    \A t \in 1..MaxEvents :
        ((t \in Started) ~> (t \in Started /\ ReachedAll(t)))

\* the events sent to connection w were emitted in the order they were sent
InOrder(w) ==
    \A i, j \in 1..Len(sockets[w].received) :
        i < j => sockets[w].received[i] < sockets[w].received[j]

\* C29: each connection is sent the events in the order the runtime emitted
\* them, and no event whose action starts with an ignored prefix is sent.
C29_EventsInOrder ==
    \A w \in Sockets :
        /\ InOrder(w)
        /\ \A i \in 1..Len(sockets[w].received) :
             ~Ignored(emitted[sockets[w].received[i]])

\* the connections some broadcast has copied from the registry
Copied ==
    UNION { { tasks[t].snapshot[j] : j \in 1..Len(tasks[t].snapshot) } :
              t \in DOMAIN tasks }

\* C30: a registered websocket passed a key that is in the key store and its
\* handler is in its receive loop; it is registered once; a websocket with a
\* missing or unknown key is closed, was never registered and is sent nothing;
\* a websocket whose handler has ended is not registered.
C30_RegistryHoldsAuthorizedListeners ==
    /\ \A i \in 1..Len(registry) :
         /\ sockets[registry[i]].api_key \in KeyStore
         /\ sockets[registry[i]].state = "listening"
         /\ \A j \in 1..Len(registry) : registry[j] = registry[i] => j = i
    /\ \A w \in Sockets :
         /\ sockets[w].api_key \notin KeyStore =>
              /\ ~Contains(registry, w)
              /\ w \notin Copied
              /\ sockets[w].received = <<>>
              /\ sockets[w].state \in {"new", "closed"}
         /\ sockets[w].state = "ended" => ~Contains(registry, w)

\* one websocket turned away for an unknown key, another one registered,
\* sent an event and then gone
C30_Witness ==
    \E w, v \in Sockets :
        /\ sockets[w].state = "closed" /\ sockets[w].api_key = "k2"
        /\ sockets[v].state = "ended" /\ sockets[v].received # <<>>

\* the URLs an iteration has tried are the first ones of the list, in order,
\* and the last one tried is the only one that may have succeeded
TriedInOrder ==
    LET tried == updater.tried
        urls == <<updater.GIT_REPO_URL,
                  Replace(updater.GIT_REPO_URL, GitHub, GitHubFast)>>
    IN  /\ Len(tried) <= 2
        /\ \A k \in 1..Len(tried) :
             /\ tried[k].url = urls[k]
             /\ tried[k].ok => k = Len(tried)
        /\ Len(tried) = 2 => Find(updater.GIT_REPO_URL, GitHub) # 0
        /\ updater.pc \in {"check", "install", "sleep"}
             => updater.fetch_success = (tried # <<>> /\ tried[Len(tried)].ok)

\* C26: once the repository is initialised the thread never returns: every
\* failure of an iteration ends in the sleep that precedes the next iteration;
\* every hard reset was made in an iteration whose fetch succeeded and whose
\* local commit differed from the remote one; the remotes are tried primary
\* first, then the mirror, and none after a fetch has succeeded.
C26_UpdaterLoopContainsFailures ==
    /\ updater.entered => updater.pc # "exited"
    /\ updater.pc = "top" => updater.slept = updater.iteration
    /\ \A k \in 1..Len(updater.resets) :
         /\ updater.resets[k].fetch_success
         /\ updater.resets[k].from # updater.resets[k].to
    /\ TriedInOrder

\* a second iteration, reached after a sleep, that has tried the primary
\* remote and the mirror, with a hard reset made
C26_Witness ==
    /\ updater.iteration = 2
    /\ updater.slept = 1
    /\ updater.pc = "sleep"
    /\ Len(updater.tried) = 2
    /\ updater.resets # <<>>

\* the base directory of the volume, as the kernel resolves it
VolumeBase ==
    FsKey(PathJoin(HOST_FILESYSTEM_ROOT, LStrip(volume.Mountpoint)))

\* the requested sub-path, resolved from the base directory by the kernel
VolumeRequested ==
    FsKey(PathJoin(PathJoin(HOST_FILESYSTEM_ROOT, LStrip(volume.Mountpoint)),
                   LStrip(req.path)))

\* C27: every path get_volume_files tests or lists is the base directory of
\* the volume or lies below it, and a sub-path that resolves outside the base
\* directory is answered 403 before any access to the filesystem.
C27_VolumeFilesStayInVolume ==
    pc = "done" /\ req.kind = "volume" =>
        /\ \A i \in HostEvents(io) : IsPrefix(VolumeBase, FsKey(io[i].arg))
        /\ (res.kind \notin {"VolumeNotFound", "NoMountpoint"}
              /\ ~IsPrefix(VolumeBase, VolumeRequested))
             => res.kind = "VolumeTraversal" /\ HostEvents(io) = {}

\* C28: every read of the archive stream of a download happens while the
\* client of the request is still open.
C28_StreamReadBeforeClientClosed ==
    \A i \in DOMAIN body : body[i].client = "open"

====
